---- MODULE Spec2Model ----
(***************************************************************************)
(* Model of the CoLRev record store: the lifecycle state machine, the      *)
(* consistency checks that compare the working-tree records file with the  *)
(* last committed one (colrev_core/review_dataset.py), and the identifier  *)
(* assignment of the store (colrev/dataset.py, colrev_core/                *)
(* review_dataset.py).                                                     *)
(***************************************************************************)
EXTENDS Integers, Sequences, FiniteSets, TLC

VARIABLES
    prior_file,    \* records file of the last commit touching it (sequence of entries)
    records_file,  \* records file in the working tree (sequence of entries)
    check_result,  \* outcome of the last run of the checks, or NotRun
    tr_from,       \* transition lookup: source status
    tr_to,         \* transition lookup: destination status
    tr_valid,      \* transition lookup: result, or "unset"
    records,       \* the records mapping of the store (dict items in insertion order)
    ids_before,    \* the records mapping when set_ids was last called
    ids_call,      \* the arguments and settings of the last call of set_ids
    ids_result,    \* what the last call of set_ids printed and raised
    origin_states, \* outcome of the last call of get_origin_state_dict, or NotLoaded
    notified_next_operation, \* the operation the caller has declared, or NotNotified
    store_io,      \* the last store operation and what it did to the store file
    op_raised,     \* the exception the last store operation raised, or "none"
    lock_file,     \* whether .git/index.lock exists
    wait,          \* position and counter of _sleep_util_git_unlocked
    git_state,     \* the git repository: whether it has a commit, the changes of its files
    changes_call,  \* the last call of has_changes and its result
    alloc,         \* the last call of an identifier allocator and its result
    main_references,        \* the bytes of the records file
    main_references_before, \* its bytes before the last file operation
    file_call,     \* the last file operation, its arguments and its result
    pdf_files,        \* the PDF files of the project directory, each with its colrev_pdf_id
    search_rd,        \* the feed file of the PDF directory source, or NoFile
    dataset_records,  \* the records of the dataset's records file, or NoFile
    search_call,      \* the last operation on the dataset and the records before it
    commits,          \* the commits of the repository, oldest first
    history_call,     \* the last call of load_records_from_history and what it yielded
    source_file,      \* the records of the file of the search source
    load_call,        \* the last call of load_source_records and what it imported
    file_revisions,   \* the committed versions of a search file, oldest first
    search_file,      \* the search file in the working tree
    append_only       \* the outcome of the last call of ensure_append_only

vars == <<prior_file, records_file, check_result, tr_from, tr_to, tr_valid,
          records, ids_before, ids_call, ids_result, origin_states,
          notified_next_operation, store_io, op_raised, lock_file, wait,
          git_state, changes_call, alloc,
          main_references, main_references_before, file_call,
          pdf_files, search_rd, dataset_records, search_call,
          commits, history_call,
          source_file, load_call, file_revisions, search_file, append_only>>

checkVars == <<prior_file, records_file, check_result>>
trVars == <<tr_from, tr_to, tr_valid>>
idsVars == <<records, ids_before, ids_call, ids_result>>
loadVars == <<origin_states>>
guardVars == <<notified_next_operation, store_io, op_raised, lock_file, wait>>
repoVars == <<git_state, changes_call>>
allocVars == <<alloc>>
fileVars == <<main_references, main_references_before, file_call>>
pdfVars == <<pdf_files, search_rd, dataset_records, search_call>>
histVars == <<commits, history_call>>
srcVars == <<source_file, load_call>>
appendVars == <<file_revisions, search_file, append_only>>

----------------------------------------------------------------------------
(* Generic helpers *)

Range(s) == {s[i] : i \in 1..Len(s)}

Count(s, x) == Cardinality({i \in 1..Len(s) : s[i] = x})

\* Index of the first element of s that is in set S (0 if none)
FirstIn(s, S) ==
    IF \E i \in 1..Len(s) : s[i] \in S
    THEN CHOOSE i \in 1..Len(s) : s[i] \in S /\ \A j \in 1..(i - 1) : s[j] \notin S
    ELSE 0

\* s without its i-th element
RemoveAt(s, i) == SubSeq(s, 1, i - 1) \o SubSeq(s, i + 1, Len(s))

\* s with x inserted so that it becomes the i-th element
InsertAt(s, i, x) == SubSeq(s, 1, i - 1) \o <<x>> \o SubSeq(s, i, Len(s))

----------------------------------------------------------------------------
(* State machine: states and transition table *)

\* The lifecycle states, in order (str(RecordState.x) is the name)
RecordState ==
    << "md_retrieved", "md_imported", "md_needs_manual_preparation",
       "md_prepared", "md_processed", "rev_prescreen_excluded",
       "rev_prescreen_included", "pdf_needs_manual_retrieval", "pdf_imported",
       "pdf_not_available", "pdf_needs_manual_preparation", "pdf_prepared",
       "rev_excluded", "rev_included", "rev_synthesized" >>

\* [str(x) for x in RecordState]
status_schema == Range(RecordState)

T(trigger, source, dest) == [trigger |-> trigger, source |-> source, dest |-> dest]

\* ProcessModel.transitions
transitions ==
    << T("load", "md_retrieved", "md_imported"),
       T("prep", "md_imported", "md_needs_manual_preparation"),
       T("prep", "md_imported", "md_prepared"),
       T("prep_man", "md_needs_manual_preparation", "md_prepared"),
       T("dedupe", "md_prepared", "md_processed"),
       T("prescreen", "md_processed", "rev_prescreen_excluded"),
       T("prescreen", "md_processed", "rev_prescreen_included"),
       T("pdf_get", "rev_prescreen_included", "pdf_imported"),
       T("pdf_get", "rev_prescreen_included", "pdf_needs_manual_retrieval"),
       T("pdf_get_man", "pdf_needs_manual_retrieval", "pdf_not_available"),
       T("pdf_get_man", "pdf_needs_manual_retrieval", "pdf_imported"),
       T("pdf_prep", "pdf_imported", "pdf_needs_manual_preparation"),
       T("pdf_prep", "pdf_imported", "pdf_prepared"),
       T("pdf_prep_man", "pdf_needs_manual_preparation", "pdf_prepared"),
       T("screen", "pdf_prepared", "rev_excluded"),
       T("screen", "pdf_prepared", "rev_included"),
       T("data", "rev_included", "rev_synthesized") >>

\* The (source, dest) pairs of the table
TransitionTable == {<<transitions[i].source, transitions[i].dest>> : i \in 1..Len(transitions)}

\* proc_transition_list: the triggers of the table rows with this source and dest
proc_transition_list(source, dest) ==
    LET rows == SelectSeq(transitions, LAMBDA x : x.source = source /\ x.dest = dest)
    IN  [i \in 1..Len(rows) |-> rows[i].trigger]

\* Variant of the lookup that matches the rows on their dest alone
is_valid_transition_by_dest(source, dest) ==
    \E i \in 1..Len(transitions) : transitions[i].dest = dest

\* The lookup the checker makes: a pair is a valid transition iff a row matches
is_valid_transition(source, dest) == Len(proc_transition_list(source, dest)) # 0

\* The statuses at/after md_processed (the list of retrieve_data)
persisted_states ==
    { "md_processed", "rev_prescreen_excluded", "rev_prescreen_included",
      "pdf_needs_manual_retrieval", "pdf_imported", "pdf_not_available",
      "pdf_needs_manual_preparation", "pdf_prepared", "rev_excluded",
      "rev_included", "rev_synthesized" }

----------------------------------------------------------------------------
(* The records file: a sequence of entries [ID, status, origin]; origin is   *)
(* the list of origins of the entry's origin line, <<>> when the entry has   *)
(* no origin line.                                                           *)

Entry(id, status, origin) == [ID |-> id, status |-> status, origin |-> origin]

\* origin.split(";") where origin defaults to "NA"
origin_split(rec) == IF rec.origin = <<>> THEN <<"NA">> ELSE rec.origin

\* Errors raised by the checks
Err(kind, what, arg) == [kind |-> kind, what |-> what, arg |-> arg]
NoError == Err("ok", "", "")
NotRun == Err("not_run", "", "")

----------------------------------------------------------------------------
(* History Inspector and data collection of the checks *)

RECURSIVE Concat(_)
\* Concatenation of a sequence of sequences
Concat(ss) == IF ss = <<>> THEN <<>> ELSE Head(ss) \o Concat(Tail(ss))

\* retrieve_prior: prior["status"] = [origin, status] of every origin of the
\* committed file; prior["persisted_IDs"] = [origin, ID] of the origins whose
\* committed status is md_processed
retrieve_prior(f) ==
    [ status |->
        Concat([i \in 1..Len(f) |->
            [j \in 1..Len(origin_split(f[i])) |-> <<origin_split(f[i])[j], f[i].status>>]]),
      persisted_IDs |->
        Concat([i \in 1..Len(f) |->
            IF f[i].status = "md_processed"
            THEN [j \in 1..Len(origin_split(f[i])) |-> <<origin_split(f[i])[j], f[i].ID>>]
            ELSE <<>>]) ]

\* The data dictionary retrieve_data starts from (the keys the checks read);
\* raised is the exception raised while collecting, NoError if none
EmptyData ==
    [ IDs |-> <<>>, origin_list |-> <<>>, persisted_IDs |-> <<>>,
      record_links_in_bib |-> <<>>, entries_without_origin |-> <<>>,
      status_fields |-> <<>>, start_states |-> <<>>, raised |-> NoError ]

\* prior_status: the committed statuses of the entry's origins, in the order of
\* the committed file
prior_status(prior, rec) ==
    LET rows == SelectSeq(prior.status, LAMBDA p : p[1] \in Range(origin_split(rec)))
    IN  [k \in 1..Len(rows) |-> rows[k][2]]

\* A variant of the transition step that takes md_retrieved as the prior status
\* of an entry without a prior status
transition_step_from_retrieved(prior, data, rec) ==
    LET found == prior_status(prior, rec)
        ps == IF Len(found) = 0 THEN <<"md_retrieved">> ELSE found
    IN  IF Len(proc_transition_list(ps[1], rec.status)) = 0 /\ ps[1] # rec.status
        THEN [data EXCEPT
                !.start_states = Append(@, ps[1]),
                !.raised = Err("StatusTransitionError", "invalid state transition", rec.ID)]
        ELSE data

\* The transition step of retrieve_data for one entry: only the first prior
\* status is looked at; an unknown pair with differing statuses records the
\* start state and raises
transition_step(prior, data, rec) ==
    LET ps == prior_status(prior, rec)
    IN  IF Len(ps) = 0
        THEN data
        ELSE IF Len(proc_transition_list(ps[1], rec.status)) = 0 /\ ps[1] # rec.status
             THEN [data EXCEPT
                     !.start_states = Append(@, ps[1]),
                     !.raised =
                        IF ps[1] \notin status_schema
                        THEN Err("StatusFieldValueError", ps[1], rec.ID)
                        ELSE IF rec.status \notin status_schema
                             THEN Err("StatusFieldValueError", rec.status, rec.ID)
                             ELSE Err("StatusTransitionError", "invalid state transition", rec.ID)]
             ELSE data

\* The body of retrieve_data's loop for one entry
retrieve_record(prior, data, rec) ==
    LET orgs == origin_split(rec)
        d1 == [data EXCEPT
                 !.IDs = Append(@, rec.ID),
                 !.origin_list = @ \o [j \in 1..Len(orgs) |-> <<rec.ID, orgs[j]>>],
                 !.persisted_IDs =
                    IF rec.status \in persisted_states
                    THEN @ \o [j \in 1..Len(orgs) |-> <<orgs[j], rec.ID>>]
                    ELSE @,
                 !.record_links_in_bib = IF rec.origin # <<>> THEN @ \o orgs ELSE @,
                 !.entries_without_origin = IF rec.origin = <<>> THEN Append(@, rec.ID) ELSE @,
                 !.status_fields = Append(@, rec.status)]
    IN  transition_step(prior, d1, rec)

RECURSIVE retrieve_loop(_, _, _)
\* The loop of retrieve_data over the entries of the file; it ends at the
\* first entry that raises
retrieve_loop(prior, data, recs) ==
    IF recs = <<>> \/ data.raised # NoError
    THEN data
    ELSE retrieve_loop(prior, retrieve_record(prior, data, Head(recs)), Tail(recs))

retrieve_data(prior, f) == retrieve_loop(prior, EmptyData, f)

----------------------------------------------------------------------------
(* The checks *)

\* The search directory: the entry ids of each *.bib search file
search_dir == [name \in {"a.bib"} |-> <<"X", "Y">>]

\* all_record_links of check_main_references_origin
all_record_links ==
    UNION {{name \o "/" \o search_dir[name][k] : k \in 1..Len(search_dir[name])} :
             name \in DOMAIN search_dir}

check_main_references_duplicates(data) ==
    IF Len(data.IDs) # Cardinality(Range(data.IDs))
    THEN Err("DuplicatesError", "Duplicates in MAIN_REFERENCES",
             data.IDs[FirstIn(data.IDs, {x \in Range(data.IDs) : Count(data.IDs, x) > 1})])
    ELSE NoError

check_main_references_origin(prior, data) ==
    LET origins == [k \in 1..Len(data.origin_list) |-> data.origin_list[k][2]]
        non_unique_origins == {o \in Range(origins) : Count(origins, o) > 1}
    IN  IF Len(data.entries_without_origin) # 0
        THEN Err("OriginError", "Entries without origin", data.entries_without_origin[1])
        ELSE IF Range(data.record_links_in_bib) \ all_record_links # {}
        THEN Err("OriginError", "broken origins", "")
        ELSE IF non_unique_origins # {}
        THEN Err("OriginError", "Non-unique origin", origins[FirstIn(origins, non_unique_origins)])
        ELSE NoError

check_main_references_status_fields(data) ==
    IF Range(data.status_fields) \ status_schema # {}
    THEN Err("FieldError", "status field(s) not in schema", "")
    ELSE NoError

check_status_transitions(data) ==
    IF Cardinality(Range(data.start_states)) > 1
    THEN Err("StatusTransitionError", "multiple transitions from different start states", "")
    ELSE NoError

RECURSIVE persisted_loop(_, _)
\* The loop of check_persisted_ID_changes over prior["persisted_IDs"]
persisted_loop(rows, data) ==
    IF rows = <<>>
    THEN NoError
    ELSE LET prior_origin == Head(rows)[1]
             prior_id == Head(rows)[2]
             new == data.persisted_IDs
         IN  IF prior_origin \notin {new[k][1] : k \in 1..Len(new)}
             THEN Err("OriginError", "origin removed", prior_origin)
             ELSE IF \E k \in 1..Len(new) : new[k][1] = prior_origin /\ new[k][2] # prior_id
                  THEN Err("PropagatedIDChange", "ID of processed record changed", prior_id)
                  ELSE persisted_loop(Tail(rows), data)

check_persisted_ID_changes(prior, data) == persisted_loop(prior.persisted_IDs, data)

\* The first error of a sequence of check results
FirstError(results) ==
    IF \E i \in 1..Len(results) : results[i] # NoError
    THEN results[FirstIn(results, Range(results) \ {NoError})]
    ELSE NoError

\* The consistency check of (prior, current): the prior snapshot and the data
\* are retrieved, then the checks run in the order of the specification
check_repo(pf, rf) ==
    LET prior == retrieve_prior(pf)
        data == retrieve_data(prior, rf)
    IN  IF data.raised # NoError
        THEN data.raised
        ELSE FirstError(<< check_main_references_duplicates(data),
                           check_main_references_origin(prior, data),
                           check_main_references_status_fields(data),
                           check_status_transitions(data),
                           check_persisted_ID_changes(prior, data) >>)

----------------------------------------------------------------------------
(* Strings of the identifier allocator: sequences of one-character strings *)

\* string.ascii_lowercase
letters ==
    << "a", "b", "c", "d", "e", "f", "g", "h", "i", "j", "k", "l", "m",
       "n", "o", "p", "q", "r", "s", "t", "u", "v", "w", "x", "y", "z" >>

upper_letters ==
    << "A", "B", "C", "D", "E", "F", "G", "H", "I", "J", "K", "L", "M",
       "N", "O", "P", "Q", "R", "S", "T", "U", "V", "W", "X", "Y", "Z" >>

\* Position of the first occurrence of c in s (0 if none)
IndexOf(s, c) == FirstIn(s, {c})

digits == <<"0", "1", "2", "3", "4", "5", "6", "7", "8", "9">>

digit_chars == Range(digits)

\* The code-point order of the characters of identifiers
ord(c) == IndexOf(digits \o upper_letters \o letters, c)

RECURSIVE str_less(_, _)
\* a < b on strings
str_less(a, b) ==
    IF b = <<>> THEN FALSE
    ELSE IF a = <<>> THEN TRUE
    ELSE IF a[1] # b[1] THEN ord(a[1]) < ord(b[1])
    ELSE str_less(Tail(a), Tail(b))

\* str.lower() / str.upper() on one character
lower_char(c) == IF c \in Range(upper_letters) THEN letters[IndexOf(upper_letters, c)] ELSE c
upper_char(c) == IF c \in Range(letters) THEN upper_letters[IndexOf(letters, c)] ELSE c

\* str.lower()
lower(s) == [i \in 1..Len(s) |-> lower_char(s[i])]

\* str.isupper(): at least one cased character and no lower-case one
isupper(s) ==
    /\ \E i \in 1..Len(s) : s[i] \in Range(upper_letters)
    /\ \A i \in 1..Len(s) : s[i] \notin Range(letters)

\* str.capitalize()
capitalize(s) == [i \in 1..Len(s) |-> IF i = 1 THEN upper_char(s[i]) ELSE lower_char(s[i])]

\* Whether sep occurs in s at position i
OccursAt(s, sep, i) == i + Len(sep) - 1 <= Len(s) /\ SubSeq(s, i, i + Len(sep) - 1) = sep

\* Position of the first occurrence of sep in s (0 if none)
Find(s, sep) ==
    IF \E i \in 1..Len(s) : OccursAt(s, sep, i)
    THEN CHOOSE i \in 1..Len(s) : OccursAt(s, sep, i) /\ \A j \in 1..(i - 1) : ~OccursAt(s, sep, j)
    ELSE 0

RECURSIVE split(_, _)
\* str.split(sep)
split(s, sep) ==
    LET i == Find(s, sep)
    IN  IF i = 0
        THEN <<s>>
        ELSE <<SubSeq(s, 1, i - 1)>> \o split(SubSeq(s, i + Len(sep), Len(s)), sep)

\* str.replace(c, "") for a single character c
remove_char(s, c) == SelectSeq(s, LAMBDA x : x # c)

\* re.sub(r"\(.*\)", "", s): the span from the first "(" to the last ")" after it
remove_parenthetical(s) ==
    LET open == IndexOf(s, "(")
        closes == {i \in 1..Len(s) : s[i] = ")" /\ i > open}
    IN  IF open = 0 \/ closes = {}
        THEN s
        ELSE LET close == CHOOSE i \in closes : \A j \in closes : j <= i
             IN  SubSeq(s, 1, open - 1) \o SubSeq(s, close + 1, Len(s))

\* re.sub("[^0-9a-zA-Z]+", "", s)
keep_alnum(s) ==
    SelectSeq(s, LAMBDA x : x \in Range(letters) \cup Range(upper_letters) \cup digit_chars)

----------------------------------------------------------------------------
(* ID Allocator *)

RECURSIVE suffix(_)
\* The n-th element (n >= 1) of the enumeration of itertools.product(letters,
\* repeat=order) for order = 1, 2, ...: a..z, aa..zz, aaa..
suffix(n) ==
    IF n <= Len(letters)
    THEN <<letters[n]>>
    ELSE suffix((n - 1) \div Len(letters)) \o <<letters[((n - 1) % Len(letters)) + 1]>>

RECURSIVE next_unique_loop(_, _, _)
\* The while loop of _generate_next_unique_id after n suffixes were popped
next_unique_loop(temp_id, existing_lower, n) ==
    LET next_unique_id == IF n = 0 THEN temp_id ELSE temp_id \o suffix(n)
    IN  IF lower(next_unique_id) \in existing_lower
        THEN next_unique_loop(temp_id, existing_lower, n + 1)
        ELSE next_unique_id

\* Variant that appends the first suffix on a collision without testing it
generate_next_unique_id_first_suffix(temp_id, existing_ids) ==
    IF lower(temp_id) \in {lower(existing_ids[i]) : i \in 1..Len(existing_ids)}
    THEN temp_id \o suffix(1)
    ELSE temp_id

\* Dataset._generate_next_unique_id
generate_next_unique_id(temp_id, existing_ids) ==
    next_unique_loop(temp_id, {lower(existing_ids[i]) : i \in 1..Len(existing_ids)}, 0)

\* PrepRecord.format_author_field, on author strings already in the
\* "Family, Given and Family, Given" form
format_author_field(input_string) == input_string

\* colrev.env.utils.remove_accents, on strings without accented characters
remove_accents(s) == s

Anonymous == <<"A", "n", "o", "n", "y", "m", "o", "u", "s">>
NoYear == <<"N", "o", "Y", "e", "a", "r">>
EtAl == <<"E", "t", "A", "l">>
and_sep == <<" ", "a", "n", "d", " ">>

\* Dataset._generate_temp_id for a record that is not in the local index; a
\* missing author or year field is <<>>
generate_temp_id(record_dict, id_pattern) ==
    LET authors == IF record_dict.author # <<>>
                   THEN split(format_author_field(record_dict.author), and_sep)
                   ELSE <<Anonymous>>
        year == IF record_dict.year = <<>> THEN NoYear ELSE record_dict.year
        family(a) == remove_char(split(a, <<",">>)[1], " ")
        indices == IF Len(authors) > 3 THEN 3 ELSE Len(authors)
        temp_id == IF id_pattern = "first_author_year"
                   THEN family(authors[1]) \o year
                   ELSE Concat([ind \in 1..indices |-> family(authors[ind])])
                        \o (IF Len(authors) > 3 THEN EtAl ELSE <<>>) \o year
        cased == IF isupper(temp_id) THEN capitalize(temp_id) ELSE temp_id
    IN  keep_alnum(remove_parenthetical(remove_accents(cased)))

RECURSIVE reachable_from(_)
\* The states reachable from a set of states along the transition table
reachable_from(S) ==
    LET next == S \cup {p[2] : p \in {q \in TransitionTable : q[1] \in S}}
    IN  IF next = S THEN S ELSE reachable_from(next)

\* RecordState.get_post_x_states: every state at or after the given state
get_post_x_states(state) == reachable_from({state})

\* Record.set_status
set_status(record_dict, target_state) == [record_dict EXCEPT !.status = target_state]

\* Variant of _generate_id that returns the temporary ID whatever the existing IDs
generate_id_temp_only(record_dict, existing_ids, id_pattern) ==
    IF record_dict.status \in get_post_x_states("md_processed")
    THEN [exc |-> "PropagatedIDChange", id |-> record_dict.ID]
    ELSE [exc |-> "none", id |-> generate_temp_id(record_dict, id_pattern)]

\* Dataset._generate_id: exc is the exception raised ("none" if it returns)
generate_id(record_dict, existing_ids, id_pattern) ==
    IF record_dict.status \in get_post_x_states("md_processed")
    THEN [exc |-> "PropagatedIDChange", id |-> record_dict.ID]
    ELSE LET temp_id == generate_temp_id(record_dict, id_pattern)
         IN  [exc |-> "none",
              id |-> IF existing_ids # <<>>
                     THEN generate_next_unique_id(temp_id, existing_ids)
                     ELSE temp_id]

----------------------------------------------------------------------------
(* Python dict and list operations on the records mapping: a dict is the     *)
(* sequence of its [key, val] items in insertion order                       *)

Item(k, v) == [key |-> k, val |-> v]

keys(d) == [i \in 1..Len(d) |-> d[i].key]

key_index(d, k) == FirstIn(keys(d), {k})

\* d[k] = v
dict_set(d, k, v) ==
    IF k \in Range(keys(d))
    THEN [d EXCEPT ![key_index(d, k)].val = v]
    ELSE Append(d, Item(k, v))

\* del d[k]
dict_del(d, k) == SelectSeq(d, LAMBDA it : it.key # k)

\* list.remove(x): the first occurrence is removed
list_remove(l, x) ==
    LET i == FirstIn(l, {x})
    IN  SubSeq(l, 1, i - 1) \o SubSeq(l, i + 1, Len(l))

\* Dataset.get_origin_state_dict on the header items of a records file: every
\* origin of every entry is assigned its entry's status, a later assignment to
\* the same origin replacing the earlier one
RECURSIVE origin_state_loop(_, _, _)
origin_state_loop(d, status, origin) ==
    IF origin = <<>>
    THEN d
    ELSE origin_state_loop(dict_set(d, Head(origin), status), status, Tail(origin))

RECURSIVE header_loop(_, _)
header_loop(d, items) ==
    IF items = <<>>
    THEN d
    ELSE header_loop(origin_state_loop(d, Head(items).status, Head(items).origin), Tail(items))

get_origin_state_dict(f) == [loaded |-> TRUE, raised |-> "none", dict |-> header_loop(<<>>, f)]

\* list(d.values())
values(d) == [n \in 1..Len(d) |-> d[n].val]

\* {r["ID"]: r for r in l}, for a list whose IDs are distinct
by_ID(l) == [n \in 1..Len(l) |-> Item(l[n].ID, l[n])]

\* selected_ids of set_ids: None, or a list of identifiers
Selected(given, ids) == [given |-> given, ids |-> ids]
None == Selected(FALSE, {})

----------------------------------------------------------------------------
(* Dataset.set_ids (colrev/dataset.py) *)

\* Variant of the except clause that lets the exception leave set_ids
on_propagated_id_change_reraised(st, record_id) == [st EXCEPT !.raised = "PropagatedIDChange"]

\* The except clause of set_ids: the exception is printed and the loop goes on
on_propagated_id_change(st, record_id) == [st EXCEPT !.printed = Append(@, record_id)]

\* One iteration of the loop of set_ids; st holds records, id_list, the
\* printed exceptions and the exception that left the loop ("none" if none)
set_ids_step(st, record_id, selected_ids, force_mode, id_pattern) ==
    LET k == key_index(st.records, record_id)
        record_dict == st.records[k].val
    IN  IF selected_ids.given /\ record_id \notin selected_ids.ids
        THEN st
        ELSE IF record_dict.status \notin {"md_imported", "md_prepared"} /\ ~force_mode
        THEN st
        ELSE
          LET temp_stat == record_dict.status
              truthy == selected_ids.given /\ selected_ids.ids # {}
              prepared == IF truthy THEN set_status(record_dict, "md_prepared") ELSE record_dict
              gen == generate_id(prepared,
                                 SelectSeq(st.id_list, LAMBDA x : x # record_id), id_pattern)
          IN  IF gen.exc # "none"
              THEN on_propagated_id_change([st EXCEPT !.records[k].val = prepared], record_id)
              ELSE
                LET restored == IF truthy THEN set_status(prepared, temp_stat) ELSE prepared
                    new_id == gen.id
                    id_list == Append(st.id_list, new_id)
                    renamed == [restored EXCEPT !.ID = new_id]
                IN  IF record_id # new_id
                    THEN [st EXCEPT
                            !.records = dict_del(dict_set([st.records EXCEPT ![k].val = renamed],
                                                          new_id, renamed), record_id),
                            !.id_list = IF record_id \in Range(id_list)
                                        THEN list_remove(id_list, record_id)
                                        ELSE id_list]
                    ELSE [st EXCEPT !.records[k].val = restored, !.id_list = id_list]

RECURSIVE set_ids_loop(_, _, _, _, _)
\* The loop of set_ids over list(records.keys())
set_ids_loop(st, record_ids, selected_ids, force_mode, id_pattern) ==
    IF record_ids = <<>> \/ st.raised # "none"
    THEN st
    ELSE set_ids_loop(set_ids_step(st, Head(record_ids), selected_ids, force_mode, id_pattern),
                      Tail(record_ids), selected_ids, force_mode, id_pattern)

\* Variant that leaves every record at md_prepared instead of restoring the
\* status it had
set_ids_status_not_restored(recs, selected_ids, force_mode, id_pattern) ==
    LET st == set_ids_loop([records |-> recs, id_list |-> keys(recs), printed |-> <<>>, raised |-> "none"],
                           keys(recs), selected_ids, force_mode, id_pattern)
    IN  [st EXCEPT !.records = by_ID([i \in 1..Len(st.records) |->
                                        set_status(st.records[i].val, "md_prepared")])]

\* Dataset.set_ids: the records it saves and returns, what it printed and
\* the exception it raised
set_ids(recs, selected_ids, force_mode, id_pattern) ==
    set_ids_loop([records |-> recs, id_list |-> keys(recs), printed |-> <<>>, raised |-> "none"],
                 keys(recs), selected_ids, force_mode, id_pattern)

----------------------------------------------------------------------------
(* ReviewDataset.set_IDs (colrev_core/review_dataset.py) *)

\* The temporary ID of __generate_ID_blacklist for a record that is not in
\* the local index
generate_temp_ID(record, ID_PATTERN) ==
    LET authors == IF record.author # <<>>
                   THEN split(format_author_field(record.author), and_sep)
                   ELSE <<Anonymous>>
        year == IF record.year = <<>> THEN NoYear ELSE record.year
        last == authors[Len(authors)]
        \* the loop variable after "for author in authors"
        author == IF "," \in Range(last) THEN split(last, <<",">>)[1] ELSE split(last, <<" ">>)[1]
        indices == IF Len(authors) > 3 THEN 3 ELSE Len(authors)
        temp_ID == IF ID_PATTERN = "first_author_year"
                   THEN remove_char(author, " ") \o year
                   ELSE Concat([ind \in 1..indices |->
                                  remove_char(split(authors[ind], <<",">>)[1], " ")])
                        \o (IF Len(authors) > 3 THEN EtAl ELSE <<>>) \o year
        cased == IF isupper(temp_ID) THEN capitalize(temp_ID) ELSE temp_ID
    IN  keep_alnum(remove_parenthetical(remove_accents(cased)))

RECURSIVE next_unique_ID_loop(_, _, _)
\* The while loop of __generate_ID_blacklist after n suffixes were popped
next_unique_ID_loop(temp_ID, other_ids, n) ==
    LET next_unique_ID == IF n = 0 THEN temp_ID ELSE temp_ID \o suffix(n)
    IN  IF next_unique_ID \in Range(other_ids)
        THEN next_unique_ID_loop(temp_ID, other_ids, n + 1)
        ELSE next_unique_ID

\* __generate_ID_blacklist(record, ID_blacklist, record_in_bib_db=True,
\* raise_error=False): the ID, and the blacklist it has mutated
generate_ID_blacklist(record, ID_blacklist, ID_PATTERN) ==
    LET other_ids == IF record.ID \in Range(ID_blacklist)
                     THEN list_remove(ID_blacklist, record.ID)
                     ELSE ID_blacklist
    IN  [id |-> next_unique_ID_loop(generate_temp_ID(record, ID_PATTERN), other_ids, 0),
         ID_list |-> other_ids]

\* The blacklist part of __generate_ID_blacklist (record_in_bib_db=True) for a
\* temp_ID already formed: the record's own ID is removed once from the
\* blacklist, then the loop compares the IDs as they are written
next_unique_ID(temp_ID, record_ID, ID_blacklist) ==
    LET other_ids == IF record_ID \in Range(ID_blacklist)
                     THEN list_remove(ID_blacklist, record_ID)
                     ELSE ID_blacklist
    IN  next_unique_ID_loop(temp_ID, other_ids, 0)

\* A variant that keeps the identifier of the source record whatever the store holds
load_source_records_id_as_given(ID, record_ids) == ID

\* Load.load_source_records, "Make sure not to replace existing records": the
\* same loop over the keys of the records dict, compared as they are written
load_source_records_id(ID, record_ids) == next_unique_ID_loop(ID, record_ids, 0)

\* One iteration of the loop of set_IDs over the list of records
set_IDs_step(st, i, selected_IDs, ID_PATTERN) ==
    LET record == st.records[i]
    IN  IF selected_IDs.given /\ record.ID \notin selected_IDs.ids
        THEN st
        ELSE IF ~selected_IDs.given /\ record.status \notin {"md_imported", "md_prepared"}
        THEN st
        ELSE
          LET old_id == record.ID
              gen == generate_ID_blacklist(record, st.ID_list, ID_PATTERN)
              new_id == gen.id
              ID_list == Append(gen.ID_list, new_id)
          IN  [records |-> [st.records EXCEPT ![i].ID = new_id],
               ID_list |-> IF old_id # new_id /\ old_id \in Range(ID_list)
                           THEN list_remove(ID_list, old_id)
                           ELSE ID_list]

RECURSIVE set_IDs_loop(_, _, _, _)
set_IDs_loop(st, i, selected_IDs, ID_PATTERN) ==
    IF i > Len(st.records)
    THEN st
    ELSE set_IDs_loop(set_IDs_step(st, i, selected_IDs, ID_PATTERN), i + 1, selected_IDs, ID_PATTERN)

RECURSIVE sorted_by_ID(_)
\* sorted(records, key=lambda d: d["ID"]) (stable)
sorted_by_ID(l) ==
    IF l = <<>>
    THEN <<>>
    ELSE LET rest == sorted_by_ID(SubSeq(l, 1, Len(l) - 1))
             x == l[Len(l)]
             pos == Cardinality({j \in 1..Len(rest) : ~str_less(x.ID, rest[j].ID)})
         IN  InsertAt(rest, pos + 1, x)

\* ReviewDataset.set_IDs: the records it saves, reloads and returns
set_IDs(recs, selected_IDs, ID_PATTERN) ==
    sorted_by_ID(set_IDs_loop([records |-> recs, ID_list |-> [i \in 1..Len(recs) |-> recs[i].ID]],
                              1, selected_IDs, ID_PATTERN).records)

----------------------------------------------------------------------------
(* The store between commits: the records file is edited, checked, committed *)

\* Bounds of the model
MaxRecords == 2
MaxOrigins == 2

\* The values the edits draw from
EntryIds == {"A", "B"}
FileOrigins == {"a.bib/X", "a.bib/Y", "b.bib/Z"}
FileStatuses == {"md_prepared", "md_processed", "rev_prescreen_excluded", "md_procesed"}

NoCall == [impl |-> "none", selected_ids |-> None, force_mode |-> FALSE, id_pattern |-> "first_author_year"]
NoResult == [printed |-> <<>>, raised |-> "none"]

IdleIds ==
    /\ records = <<>>
    /\ ids_before = <<>>
    /\ ids_call = NoCall
    /\ ids_result = NoResult

InitCheck ==
    /\ prior_file = <<>>
    /\ records_file = <<>>
    /\ check_result = NotRun

NotLoaded == [loaded |-> FALSE, raised |-> "none", dict |-> <<>>]

IdleLoad == origin_states = NotLoaded

\* review_manager.notified_next_operation is None
NotNotified == "None"

NoIo == [op |-> "none", read |-> FALSE, written |-> FALSE, staged |-> FALSE]
NotWaiting == [pc |-> "idle", i |-> 0, printed |-> 0, pending |-> 0]

\* The files of the repository: the records file and another file
RECORDS_FILE_RELATIVE_GIT == "data/records.bib"
SETTINGS_RELATIVE == "settings.json"
RepoFiles == {RECORDS_FILE_RELATIVE_GIT, SETTINGS_RELATIVE}

\* A file without changes: not in index.diff(None), not in head.commit.diff(),
\* not in untracked_files
Unchanged == [diff_index |-> FALSE, diff_head |-> FALSE, untracked |-> FALSE]

NoChangesCall == [impl |-> "none", change_type |-> "all", result |-> FALSE]

IdleRepo ==
    /\ git_state = [has_commit |-> TRUE, files |-> [f \in RepoFiles |-> Unchanged]]
    /\ changes_call = NoChangesCall

NoAlloc == [impl |-> "none", temp_id |-> <<>>, record_id |-> <<>>, existing_ids |-> <<>>, id |-> <<>>]

IdleAlloc == alloc = NoAlloc

NoFileCall == [op |-> "none", args |-> <<>>, result |-> <<>>, raised |-> "none"]

IdleFile ==
    /\ main_references = <<>>
    /\ main_references_before = <<>>
    /\ file_call = NoFileCall

NoFile == [is_file |-> FALSE, entries |-> <<>>]

File(entries) == [is_file |-> TRUE, entries |-> entries]

NoSearchCall == [op |-> "none", arg |-> "", records_before |-> NoFile, raised |-> "none"]

IdlePdfs ==
    /\ pdf_files = {}
    /\ search_rd = NoFile
    /\ dataset_records = NoFile
    /\ search_call = NoSearchCall

NoHistoryCall == [commit_sha |-> "", yielded |-> <<>>, called |-> FALSE]

IdleHistory ==
    /\ commits = <<>>
    /\ history_call = NoHistoryCall

NoLoadCall == [op |-> "none", keep_ids |-> FALSE, id_pattern |-> "", records_before |-> <<>>,
               source_records_list |-> <<>>, raised |-> "none"]

IdleSrc ==
    /\ source_file = <<>>
    /\ load_call = NoLoadCall

IdleAppend ==
    /\ file_revisions = <<>>
    /\ search_file = <<>>
    /\ append_only = "not called"

IdleGuard ==
    /\ notified_next_operation = NotNotified
    /\ store_io = NoIo
    /\ op_raised = "none"
    /\ lock_file = FALSE
    /\ wait = NotWaiting

IdleTr ==
    /\ tr_from = "md_retrieved"
    /\ tr_to = "md_retrieved"
    /\ tr_valid = "unset"

\* An entry is imported into the records file with one origin
AddEntry ==
    /\ Len(records_file) < MaxRecords
    /\ \E id \in EntryIds, st \in FileStatuses, o \in FileOrigins, i \in 1..(Len(records_file) + 1) :
          records_file' = InsertAt(records_file, i, Entry(id, st, <<o>>))
    /\ check_result' = NotRun
    /\ UNCHANGED <<prior_file, trVars, idsVars, loadVars, guardVars, repoVars, allocVars, fileVars, pdfVars, histVars, srcVars, appendVars>>

\* An entry is removed from the records file
RemoveEntry ==
    /\ \E i \in 1..Len(records_file) : records_file' = RemoveAt(records_file, i)
    /\ check_result' = NotRun
    /\ UNCHANGED <<prior_file, trVars, idsVars, loadVars, guardVars, repoVars, allocVars, fileVars, pdfVars, histVars, srcVars, appendVars>>

\* The status of an entry is rewritten
SetStatus ==
    /\ \E i \in 1..Len(records_file), st \in FileStatuses :
          /\ st # records_file[i].status
          /\ records_file' = [records_file EXCEPT ![i].status = st]
    /\ check_result' = NotRun
    /\ UNCHANGED <<prior_file, trVars, idsVars, loadVars, guardVars, repoVars, allocVars, fileVars, pdfVars, histVars, srcVars, appendVars>>

\* The identifier of an entry is rewritten
SetID ==
    /\ \E i \in 1..Len(records_file), id \in EntryIds :
          /\ id # records_file[i].ID
          /\ records_file' = [records_file EXCEPT ![i].ID = id]
    /\ check_result' = NotRun
    /\ UNCHANGED <<prior_file, trVars, idsVars, loadVars, guardVars, repoVars, allocVars, fileVars, pdfVars, histVars, srcVars, appendVars>>

\* An origin is appended to an entry (a merge)
AddOrigin ==
    /\ \E i \in 1..Len(records_file), o \in FileOrigins :
          /\ Len(records_file[i].origin) < MaxOrigins
          /\ o \notin Range(records_file[i].origin)
          /\ records_file' = [records_file EXCEPT ![i].origin = Append(@, o)]
    /\ check_result' = NotRun
    /\ UNCHANGED <<prior_file, trVars, idsVars, loadVars, guardVars, repoVars, allocVars, fileVars, pdfVars, histVars, srcVars, appendVars>>

\* An origin is removed from an entry
RemoveOrigin ==
    /\ \E i \in 1..Len(records_file) :
          \E j \in 1..Len(records_file[i].origin) :
              records_file' = [records_file EXCEPT ![i].origin = RemoveAt(@, j)]
    /\ check_result' = NotRun
    /\ UNCHANGED <<prior_file, trVars, idsVars, loadVars, guardVars, repoVars, allocVars, fileVars, pdfVars, histVars, srcVars, appendVars>>

\* The consistency checks run on (last commit, working tree)
RunCheck ==
    /\ check_result = NotRun
    /\ check_result' = check_repo(prior_file, records_file)
    /\ UNCHANGED <<prior_file, records_file, trVars, idsVars, loadVars, guardVars, repoVars, allocVars, fileVars, pdfVars, histVars, srcVars, appendVars>>

\* The commit is made once the checks have passed
Commit ==
    /\ check_result = NoError
    /\ records_file # prior_file
    /\ prior_file' = records_file
    /\ check_result' = NotRun
    /\ UNCHANGED <<records_file, trVars, idsVars, loadVars, guardVars, repoVars, allocVars, fileVars, pdfVars, histVars, srcVars, appendVars>>

NextCheck ==
    \/ AddEntry
    \/ RemoveEntry
    \/ SetStatus
    \/ SetID
    \/ AddOrigin
    \/ RemoveOrigin
    \/ RunCheck
    \/ Commit

Init == InitCheck /\ IdleTr /\ IdleIds /\ IdleLoad /\ IdleGuard /\ IdleRepo /\ IdleAlloc /\ IdleFile /\ IdlePdfs /\ IdleHistory /\ IdleSrc /\ IdleAppend

Spec == Init /\ [][NextCheck]_vars

----------------------------------------------------------------------------
(* The transition lookup on every pair of status values *)

\* The status values a records file can hold: the states and a misspelt one
StatusValues == status_schema \cup {"md_procesed"}

InitTr ==
    /\ tr_from \in StatusValues
    /\ tr_to \in StatusValues
    /\ tr_valid = "unset"

\* The lookup is made for the pair
LookupTransition ==
    /\ tr_valid = "unset"
    /\ tr_valid' = IF is_valid_transition(tr_from, tr_to) THEN "valid" ELSE "invalid"
    /\ UNCHANGED <<tr_from, tr_to, checkVars, idsVars, loadVars, guardVars, repoVars, allocVars, fileVars, pdfVars, histVars, srcVars, appendVars>>

NextTr == LookupTransition

InitTransitions == InitTr /\ InitCheck /\ IdleIds /\ IdleLoad /\ IdleGuard /\ IdleRepo /\ IdleAlloc /\ IdleFile /\ IdlePdfs /\ IdleHistory /\ IdleSrc /\ IdleAppend

SpecTransitions == InitTransitions /\ [][NextTr]_vars

----------------------------------------------------------------------------
(* set_ids on stores of a few records *)

MaxStore == 2

Li9 == <<"L", "i", "9">>
li9 == <<"l", "i", "9">>
X1 == <<"X", "1">>

\* "Li, X." and "Li, X. and Wu, Y."
AuthorLi == <<"L", "i", ",", " ", "X", ".">>
AuthorLiWu == AuthorLi \o and_sep \o <<"W", "u", ",", " ", "Y", ".">>

StoreIds == {Li9, li9, X1}
StoreStatuses == {"md_imported", "md_needs_manual_preparation", "rev_included"}
StoreAuthors == {AuthorLi, AuthorLiWu}
StoreYear == <<"9">>
StoreOrigins == <<"a.bib/X", "a.bib/Y", "a.bib/Z", "a.bib/W">>
IdPatterns == {"first_author_year", "three_authors_year"}

Record(id, status, author, year, origin) ==
    [ID |-> id, status |-> status, author |-> author, year |-> year, origin |-> origin]

\* The stores of n records with distinct identifiers; the i-th has the i-th origin
Stores(n) ==
    { [i \in 1..n |-> Item(ids[i], Record(ids[i], sts[i], aus[i], StoreYear, <<StoreOrigins[i]>>))] :
        ids \in {f \in [1..n -> StoreIds] : \A i, j \in 1..n : f[i] = f[j] => i = j},
        sts \in [1..n -> StoreStatuses],
        aus \in [1..n -> StoreAuthors] }

InitIds ==
    /\ records \in UNION {Stores(n) : n \in 0..MaxStore}
    /\ ids_before = <<>>
    /\ ids_call = NoCall
    /\ ids_result = NoResult

\* The values selected_ids can take for a store: None or a list of its identifiers
SelectedChoices(recs) == {None} \cup {Selected(TRUE, S) : S \in SUBSET Range(keys(recs))}

\* Dataset.set_ids is called on the records of the store
SetIds ==
    \E selected_ids \in SelectedChoices(records), force_mode \in BOOLEAN, id_pattern \in IdPatterns :
        LET res == set_ids(records, selected_ids, force_mode, id_pattern)
        IN  /\ records # <<>>
            /\ ids_call.impl = "none"
            /\ records' = res.records
            /\ ids_before' = records
            /\ ids_call' = [impl |-> "Dataset.set_ids", selected_ids |-> selected_ids,
                            force_mode |-> force_mode, id_pattern |-> id_pattern]
            /\ ids_result' = [printed |-> res.printed, raised |-> res.raised]
            /\ UNCHANGED <<checkVars, trVars, loadVars, guardVars, repoVars, allocVars, fileVars, pdfVars, histVars, srcVars, appendVars>>

\* ReviewDataset.set_IDs is called on the records of the store
SetIDsCore ==
    \E selected_IDs \in SelectedChoices(records), ID_PATTERN \in IdPatterns :
        LET res == set_IDs(values(records), selected_IDs, ID_PATTERN)
        IN  /\ records # <<>>
            /\ ids_call.impl = "none"
            /\ records' = by_ID(res)
            /\ ids_before' = records
            /\ ids_call' = [impl |-> "ReviewDataset.set_IDs", selected_ids |-> selected_IDs,
                            force_mode |-> FALSE, id_pattern |-> ID_PATTERN]
            /\ ids_result' = NoResult
            /\ UNCHANGED <<checkVars, trVars, loadVars, guardVars, repoVars, allocVars, fileVars, pdfVars, histVars, srcVars, appendVars>>

NextIds ==
    \/ SetIds
    \/ SetIDsCore

InitStores == InitIds /\ InitCheck /\ IdleTr /\ IdleLoad /\ IdleGuard /\ IdleRepo /\ IdleAlloc /\ IdleFile /\ IdlePdfs /\ IdleHistory /\ IdleSrc /\ IdleAppend

SpecIds == InitStores /\ [][NextIds]_vars

----------------------------------------------------------------------------
(* The origin-to-status dictionary of records files with distinct IDs *)

\* The origin lines of the entries: up to MaxOrigins distinct origins
OriginLines ==
    {<<>>} \cup {<<o>> : o \in FileOrigins}
           \cup (IF MaxOrigins >= 2
                 THEN {op \in {<<o, p>> : o \in FileOrigins, p \in FileOrigins} : op[1] # op[2]}
                 ELSE {})

LoadEntries == {Entry(id, st, o) : id \in EntryIds, st \in FileStatuses, o \in OriginLines}

LoadFiles ==
    {<<>>} \cup {<<e>> : e \in LoadEntries}
           \cup {eg \in {<<e, g>> : e \in LoadEntries, g \in LoadEntries} : eg[1].ID # eg[2].ID}

InitLoad ==
    /\ records_file \in LoadFiles
    /\ prior_file = <<>>
    /\ check_result = NotRun
    /\ origin_states = NotLoaded

\* The origin-to-status dictionary of the records file is built
GetOriginStateDict ==
    /\ origin_states = NotLoaded
    /\ origin_states' = get_origin_state_dict(records_file)
    /\ UNCHANGED <<checkVars, trVars, idsVars, guardVars, repoVars, allocVars, fileVars, pdfVars, histVars, srcVars, appendVars>>

NextLoad ==
    \/ GetOriginStateDict
    \/ RunCheck

InitLoadFiles == InitLoad /\ IdleTr /\ IdleIds /\ IdleGuard /\ IdleRepo /\ IdleAlloc /\ IdleFile /\ IdlePdfs /\ IdleHistory /\ IdleSrc /\ IdleAppend

SpecLoad == InitLoadFiles /\ [][NextLoad]_vars

----------------------------------------------------------------------------
(* The store operations under the notification guard and the index lock *)

\* The number of polls the model follows
MaxPolls == 32

\* The operations a caller can declare
Operations == {"load", "check"}

\* Variant of load_records_dict whose header-only branch comes before the test
load_records_dict_header_first(notified, header_only) ==
    IF header_only
    THEN [raised |-> "none", read |-> TRUE]
    ELSE IF notified = NotNotified
         THEN [raised |-> "ReviewManagerNotNotifiedError", read |-> FALSE]
         ELSE [raised |-> "none", read |-> TRUE]

\* Dataset.load_records_dict on an existing records file: the exception raised
\* and whether the file was read
load_records_dict(notified, header_only) ==
    IF notified = NotNotified
    THEN [raised |-> "ReviewManagerNotNotifiedError", read |-> FALSE]
    ELSE [raised |-> "none", read |-> TRUE]

\* ReviewDataset.load_records on an existing records file
load_records(notified, init) ==
    IF notified = NotNotified
    THEN [raised |-> "ReviewManagerNotNofiedError", read |-> FALSE]
    ELSE [raised |-> "none", read |-> TRUE]

\* Dataset.save_records_dict: what it does to the file and how many times it
\* goes on to _add_record_changes
save_records_dict(partial, add_changes) ==
    IF partial
    THEN [read |-> TRUE, written |-> TRUE, pending |-> 1]
    ELSE [read |-> FALSE, written |-> TRUE, pending |-> IF add_changes THEN 1 ELSE 0]

\* The guard and the file accesses of Dataset.set_ids
set_ids_io(notified, no_records) ==
    LET loaded == IF no_records
                  THEN load_records_dict(notified, FALSE)
                  ELSE [raised |-> "none", read |-> FALSE]
        saved == save_records_dict(FALSE, TRUE)
    IN  IF loaded.raised # "none"
        THEN [raised |-> loaded.raised, read |-> FALSE, written |-> FALSE, pending |-> 0]
        ELSE [raised |-> "none", read |-> loaded.read, written |-> saved.written,
              pending |-> saved.pending + 1]

\* Dataset.get_repo and ReviewDataset.get_repo
get_repo(notified) ==
    IF notified = NotNotified THEN "ReviewManagerNotNotifiedError" ELSE "none"

\* One pass of the loop body of _sleep_util_git_unlocked
sleep_step(w) ==
    LET i == w.i + 1
    IN  IF i > 5
        THEN [w EXCEPT !.i = i, !.printed = 1]
        ELSE IF i > 30
             THEN [w EXCEPT !.i = i, !.pc = "raised"]
             ELSE [w EXCEPT !.i = i]

\* _add_record_changes is entered: the wait for the lock starts
start_wait(pending) ==
    IF pending = 0 THEN NotWaiting ELSE [pc |-> "waiting", i |-> 0, printed |-> 0, pending |-> pending]

InitGuard ==
    /\ notified_next_operation = NotNotified
    /\ store_io = NoIo
    /\ op_raised = "none"
    /\ lock_file \in BOOLEAN
    /\ wait = NotWaiting

\* review_manager.notify(operation)
Notify ==
    /\ wait.pc = "idle"
    /\ \E op \in Operations : notified_next_operation' = op
    /\ UNCHANGED <<store_io, op_raised, lock_file, wait, checkVars, trVars, idsVars, loadVars, repoVars, allocVars, fileVars, pdfVars, histVars, srcVars, appendVars>>

LoadRecordsDict ==
    /\ wait.pc = "idle"
    /\ \E header_only \in BOOLEAN :
          LET r == load_records_dict(notified_next_operation, header_only)
          IN  /\ store_io' = [op |-> "load_records_dict", read |-> r.read,
                              written |-> FALSE, staged |-> FALSE]
              /\ op_raised' = r.raised
    /\ UNCHANGED <<notified_next_operation, lock_file, wait, checkVars, trVars, idsVars, loadVars, repoVars, allocVars, fileVars, pdfVars, histVars, srcVars, appendVars>>

LoadRecords ==
    /\ wait.pc = "idle"
    /\ \E init \in BOOLEAN :
          LET r == load_records(notified_next_operation, init)
          IN  /\ store_io' = [op |-> "load_records", read |-> r.read,
                              written |-> FALSE, staged |-> FALSE]
              /\ op_raised' = r.raised
    /\ UNCHANGED <<notified_next_operation, lock_file, wait, checkVars, trVars, idsVars, loadVars, repoVars, allocVars, fileVars, pdfVars, histVars, srcVars, appendVars>>

SaveRecordsDict ==
    /\ wait.pc = "idle"
    /\ \E partial \in BOOLEAN, add_changes \in BOOLEAN :
          LET r == save_records_dict(partial, add_changes)
          IN  /\ store_io' = [op |-> "save_records_dict", read |-> r.read,
                              written |-> r.written, staged |-> FALSE]
              /\ wait' = start_wait(r.pending)
    /\ op_raised' = "none"
    /\ UNCHANGED <<notified_next_operation, lock_file, checkVars, trVars, idsVars, loadVars, repoVars, allocVars, fileVars, pdfVars, histVars, srcVars, appendVars>>

SetIdsOnStore ==
    /\ wait.pc = "idle"
    /\ \E no_records \in BOOLEAN :
          LET r == set_ids_io(notified_next_operation, no_records)
          IN  /\ store_io' = [op |-> "set_ids", read |-> r.read,
                              written |-> r.written, staged |-> FALSE]
              /\ op_raised' = r.raised
              /\ wait' = start_wait(r.pending)
    /\ UNCHANGED <<notified_next_operation, lock_file, checkVars, trVars, idsVars, loadVars, repoVars, allocVars, fileVars, pdfVars, histVars, srcVars, appendVars>>

GetRepo ==
    /\ wait.pc = "idle"
    /\ store_io' = [op |-> "get_repo", read |-> FALSE, written |-> FALSE, staged |-> FALSE]
    /\ op_raised' = get_repo(notified_next_operation)
    /\ UNCHANGED <<notified_next_operation, lock_file, wait, checkVars, trVars, idsVars, loadVars, repoVars, allocVars, fileVars, pdfVars, histVars, srcVars, appendVars>>

\* The lock file exists: one more pass of the loop
Poll ==
    /\ wait.pc = "waiting"
    /\ lock_file
    /\ wait.i < MaxPolls
    /\ wait' = sleep_step(wait)
    /\ op_raised' = IF wait'.pc = "raised" THEN "GitNotAvailableError" ELSE op_raised
    /\ UNCHANGED <<notified_next_operation, store_io, lock_file, checkVars, trVars, idsVars, loadVars, repoVars, allocVars, fileVars, pdfVars, histVars, srcVars, appendVars>>

\* The lock file does not exist: the loop ends and the records file is staged
Unlocked ==
    /\ wait.pc = "waiting"
    /\ ~lock_file
    /\ store_io' = [store_io EXCEPT !.staged = TRUE]
    /\ wait' = start_wait(wait.pending - 1)
    /\ UNCHANGED <<notified_next_operation, op_raised, lock_file, checkVars, trVars, idsVars, loadVars, repoVars, allocVars, fileVars, pdfVars, histVars, srcVars, appendVars>>

\* Another git operation takes or releases the index lock
OtherGitOperation ==
    /\ lock_file' = ~lock_file
    /\ UNCHANGED <<notified_next_operation, store_io, op_raised, wait, checkVars, trVars, idsVars, loadVars, repoVars, allocVars, fileVars, pdfVars, histVars, srcVars, appendVars>>

NextGuard ==
    \/ Notify
    \/ LoadRecordsDict
    \/ LoadRecords
    \/ SaveRecordsDict
    \/ SetIdsOnStore
    \/ GetRepo
    \/ Poll
    \/ Unlocked
    \/ OtherGitOperation

InitStoreOps == InitGuard /\ InitCheck /\ IdleTr /\ IdleIds /\ IdleLoad /\ IdleRepo /\ IdleAlloc /\ IdleFile /\ IdlePdfs /\ IdleHistory /\ IdleSrc /\ IdleAppend

SpecGuard == InitStoreOps /\ [][NextGuard]_vars

----------------------------------------------------------------------------
(* Dataset.has_changes, Dataset.has_record_changes, ReviewDataset.has_changes *)

\* The paths of index.diff(None): tracked files changed in the working tree
diff_index(repo) == {f \in RepoFiles : repo.files[f].diff_index}

\* The paths of head.commit.diff(): files whose index differs from the commit
diff_head(repo) == {f \in RepoFiles : repo.files[f].diff_head}

\* The paths of repo.untracked_files
untracked_files(repo) == {f \in RepoFiles : repo.files[f].untracked}

\* Dataset.has_changes: True in a repository without a commit, otherwise the
\* membership of the path in the list of the change type
has_changes(repo, relative_path, change_type) ==
    IF ~repo.has_commit
    THEN TRUE
    ELSE LET unstaged_changes == diff_index(repo) \cup untracked_files(repo)
         IN  CASE change_type = "all" -> relative_path \in diff_index(repo) \cup diff_head(repo)
               [] change_type = "staged" -> relative_path \in diff_head(repo)
               [] change_type = "unstaged" -> relative_path \in unstaged_changes

\* Dataset.has_record_changes
has_record_changes(repo, change_type) ==
    has_changes(repo, RECORDS_FILE_RELATIVE_GIT, change_type)

\* git.Repo.is_dirty() with its default arguments: staged or unstaged changes
\* of any tracked file, untracked files not counted
is_dirty(repo) == diff_index(repo) \cup diff_head(repo) # {}

\* ReviewDataset.has_changes: takes no path
has_changes_of_repo(repo) == is_dirty(repo)

ChangeTypes == {"all", "staged", "unstaged"}

\* The changes of one file: an untracked file is not in the index, so it is
\* never in index.diff(None)
FileChanges ==
    {c \in [diff_index : BOOLEAN, diff_head : BOOLEAN, untracked : BOOLEAN] :
        ~(c.untracked /\ c.diff_index)}

\* A repository without a commit has no head commit to compare the index with
InitRepo ==
    /\ git_state \in [has_commit : BOOLEAN, files : [RepoFiles -> FileChanges]]
    /\ ~git_state.has_commit => diff_head(git_state) = {}
    /\ changes_call = NoChangesCall

HasRecordChanges ==
    /\ \E change_type \in ChangeTypes :
         changes_call' = [impl |-> "Dataset.has_record_changes",
                          change_type |-> change_type,
                          result |-> has_record_changes(git_state, change_type)]
    /\ UNCHANGED <<git_state, checkVars, trVars, idsVars, loadVars, guardVars, allocVars, fileVars, pdfVars, histVars, srcVars, appendVars>>

HasChanges ==
    /\ changes_call' = [impl |-> "ReviewDataset.has_changes",
                        change_type |-> "all",
                        result |-> has_changes_of_repo(git_state)]
    /\ UNCHANGED <<git_state, checkVars, trVars, idsVars, loadVars, guardVars, allocVars, fileVars, pdfVars, histVars, srcVars, appendVars>>

NextRepo ==
    \/ HasRecordChanges
    \/ HasChanges

InitRepoStates == InitRepo /\ InitCheck /\ IdleTr /\ IdleIds /\ IdleLoad /\ IdleGuard /\ IdleAlloc /\ IdleFile /\ IdlePdfs /\ IdleHistory /\ IdleSrc /\ IdleAppend

SpecRepo == InitRepoStates /\ [][NextRepo]_vars

----------------------------------------------------------------------------
(* The identifier allocators on their own *)

MaxTaken == 27

Smith2020 == <<"S", "m", "i", "t", "h", "2", "0", "2", "0">>

AllocCandidates == {Li9, li9, Smith2020}

\* The list base, base + a, base + b, ... with k suffixed identifiers, without
\* its g-th element (g = 0: the whole list)
Blacklist(base, k, g) ==
    LET all == [n \in 1..(k + 1) |-> IF n = 1 THEN base ELSE base \o suffix(n - 1)]
    IN  IF g = 0 THEN all ELSE RemoveAt(all, g)

InitAlloc ==
    \E temp_id \in AllocCandidates, base \in AllocCandidates, k \in 0..MaxTaken :
        \E g \in 0..(k + 1) :
            alloc = [NoAlloc EXCEPT !.temp_id = temp_id,
                                    !.existing_ids = Blacklist(base, k, g)]

GenerateNextUniqueId ==
    /\ alloc.impl = "none"
    /\ alloc' = [alloc EXCEPT
                    !.impl = "Dataset._generate_next_unique_id",
                    !.id = generate_next_unique_id(alloc.temp_id, alloc.existing_ids)]
    /\ UNCHANGED <<checkVars, trVars, idsVars, loadVars, guardVars, repoVars, fileVars, pdfVars, histVars, srcVars, appendVars>>

GenerateIDBlacklist ==
    /\ alloc.impl = "none"
    /\ \E record_ID \in AllocCandidates :
         alloc' = [alloc EXCEPT
                      !.impl = "ReviewDataset.__generate_ID_blacklist",
                      !.record_id = record_ID,
                      !.id = next_unique_ID(alloc.temp_id, record_ID, alloc.existing_ids)]
    /\ UNCHANGED <<checkVars, trVars, idsVars, loadVars, guardVars, repoVars, fileVars, pdfVars, histVars, srcVars, appendVars>>

LoadSourceRecords ==
    /\ alloc.impl = "none"
    /\ alloc' = [alloc EXCEPT
                    !.impl = "Load.load_source_records",
                    !.id = load_source_records_id(alloc.temp_id, alloc.existing_ids)]
    /\ UNCHANGED <<checkVars, trVars, idsVars, loadVars, guardVars, repoVars, fileVars, pdfVars, histVars, srcVars, appendVars>>

NextAlloc ==
    \/ GenerateNextUniqueId
    \/ GenerateIDBlacklist
    \/ LoadSourceRecords

InitAllocStates == InitAlloc /\ InitCheck /\ IdleTr /\ IdleIds /\ IdleLoad /\ IdleGuard /\ IdleRepo /\ IdleFile /\ IdlePdfs /\ IdleHistory /\ IdleSrc /\ IdleAppend

SpecAlloc == InitAllocStates /\ [][NextAlloc]_vars

----------------------------------------------------------------------------
(* Text of the records file: a sequence of one-character strings            *)

NL == "\n"

\* Python's s[a:b] with 0-based bounds; a negative bound counts from the end
slice(s, a, b) ==
    LET n == Len(s)
        lo == IF a < 0 THEN (IF n + a < 0 THEN 0 ELSE n + a) ELSE IF a > n THEN n ELSE a
        hi == IF b < 0 THEN (IF n + b < 0 THEN 0 ELSE n + b) ELSE IF b > n THEN n ELSE b
    IN  SubSeq(s, lo + 1, hi)

\* str.find(sub): 0-based position of the first occurrence, -1 if none
find(s, sub) == Find(s, sub) - 1

\* str.rfind(sub): 0-based position of the last occurrence, -1 if none
rfind(s, sub) ==
    LET at == {i \in 1..Len(s) : OccursAt(s, sub, i)}
    IN  IF at = {} THEN -1 ELSE (CHOOSE i \in at : \A j \in at : j <= i) - 1

\* sub in s
contains(s, sub) == Find(s, sub) # 0

\* str.lstrip() of blanks
lstrip(s) ==
    LET k == Cardinality({i \in 1..Len(s) : \A j \in 1..i : s[j] = " "})
    IN  SubSeq(s, k + 1, Len(s))

\* str.upper()
upper(s) == [i \in 1..Len(s) |-> upper_char(s[i])]

\* file.readline() at position pos (the number of bytes before it): the bytes
\* up to and including the next newline, or up to the end of the file
readline(buf, pos) ==
    LET nls == {i \in (pos + 1)..Len(buf) : buf[i] = NL}
    IN  IF nls = {}
        THEN SubSeq(buf, pos + 1, Len(buf))
        ELSE SubSeq(buf, pos + 1, CHOOSE i \in nls : \A j \in nls : i <= j)

\* file.read() at position pos
read(buf, pos) == SubSeq(buf, pos + 1, Len(buf))

\* Variant of file.write that shifts the bytes after pos instead of overwriting them
write_inserting(buf, pos, data) == SubSeq(buf, 1, pos) \o data \o SubSeq(buf, pos + 1, Len(buf))

\* file.write(data) at position pos: the bytes at pos.. are overwritten and
\* the file grows if data reaches beyond its end
write(buf, pos, data) == SubSeq(buf, 1, pos) \o data \o SubSeq(buf, pos + Len(data) + 1, Len(buf))

\* Variant of file.truncate that keeps the bytes after pos
truncate_nothing(buf, pos) == buf

\* file.truncate() at position pos
truncate(buf, pos) == SubSeq(buf, 1, pos)

\* b"@" in line[:3]
starts_entry(line) == "@" \in Range(slice(line, 0, 3))

\* line[line.find("{") + 1 : line.rfind(",")]
id_of_line(line) == slice(line, find(line, <<"{">>) + 1, rfind(line, <<",">>))

----------------------------------------------------------------------------
(* Serializer and deserializer *)

\* A field a record does not have
Absent == <<"absent">>

\* A record in memory: its ID and the fields origin, status, doi
BibEntry(id, origin, status, doi) == [ID |-> id, origin |-> origin, status |-> status, doi |-> doi]

\* The keys of get_bibtex_writer's display_order that the records have
display_order == <<"origin", "status", "doi">>

key_chars == [origin |-> <<"o", "r", "i", "g", "i", "n">>, status |-> <<"s", "t", "a", "t", "u", "s">>, doi |-> <<"d", "o", "i">>]

\* The width align_values pads the keys to: the longest key of an entry,
\* which is ENTRYTYPE for the keys above
field_max_w == 9

\* writer.indent
indent == <<" ", " ">>

\* "{field:<{field_max_w}}"
padded(key) == key \o [i \in 1..(field_max_w - Len(key)) |-> " "]

\* One field of an entry: ",\n{indent}{field} = {value}"
field_fmt(key, value) == <<",", NL>> \o indent \o padded(key) \o <<" ", "=", " ", "{">> \o value \o <<"}">>

\* One entry as the writer renders it, with add_trailing_comma: the ID on the
\* first line, then the fields in display order, one on each line
entry_to_bibtex(entry) ==
    <<"@", "m", "i", "s", "c", "{">> \o entry.ID
    \o Concat([k \in 1..Len(display_order) |->
                  IF entry[display_order[k]] = Absent
                  THEN <<>>
                  ELSE field_fmt(key_chars[display_order[k]], entry[display_order[k]])])
    \o <<",", NL, "}", NL>>

\* bibtexparser.dumps(bib_db, get_bibtex_writer()): the entries ordered by ID
\* (order_entries_by), each followed by the entry separator
dumps(entries) ==
    LET ordered == sorted_by_ID(entries)
    IN  Concat([k \in 1..Len(ordered) |-> entry_to_bibtex(ordered[k]) \o <<NL>>])

\* write_utils_bib.to_string(records_dict): the entries ordered by ID and
\* joined by an empty line
to_string(records_list) ==
    LET ordered == sorted_by_ID(records_list)
    IN  Concat([k \in 1..Len(ordered) |->
                   (IF k = 1 THEN <<>> ELSE <<NL>>) \o entry_to_bibtex(ordered[k])])

RECURSIVE loads_loop(_, _)
\* The parser over the lines of a text: a line that starts with "@" opens an
\* entry and gives its ID, a line "key = {value}," gives one of its fields
loads_loop(lines, entries) ==
    IF lines = <<>>
    THEN entries
    ELSE LET line == Head(lines)
         IN  IF line # <<>> /\ line[1] = "@"
             THEN loads_loop(Tail(lines),
                             Append(entries, BibEntry(id_of_line(line), Absent, Absent, Absent)))
             ELSE IF contains(line, <<" ", "=", " ", "{">>) /\ entries # <<>>
             THEN LET key == SelectSeq(slice(line, 0, find(line, <<" ", "=", " ", "{">>)), LAMBDA c : c # " ")
                      value == slice(line, find(line, <<"{">>) + 1, rfind(line, <<"}">>))
                      known == {k \in DOMAIN key_chars : key_chars[k] = key}
                  IN  IF known = {}
                      THEN loads_loop(Tail(lines), entries)
                      ELSE loads_loop(Tail(lines),
                                      [entries EXCEPT ![Len(entries)][CHOOSE k \in known : TRUE] = value])
             ELSE loads_loop(Tail(lines), entries)

\* BibTexParser(...).parse_file(target_db).entries: the entries in file order
loads(text) == loads_loop(split(text, <<NL>>), <<>>)

----------------------------------------------------------------------------
(* Patch writes on the records file *)

\* The list of {ID, record} built from the rendered batch: the text is split
\* at "\n@", and the "@" and the newline the split removed are put back
record_list_items(parsed) ==
    LET items == split(parsed, <<NL, "@">>)
    IN  [k \in 1..Len(items) |->
            [ID |-> slice(items[k], find(items[k], <<"{">>) + 1, find(items[k], <<",">>)),
             record |-> <<"@">> \o items[k] \o <<NL>>]]

\* record_list[0]["record"] = "@" + record_list[0]["record"][2:]
correct_first(record_list) ==
    [record_list EXCEPT ![1].record = <<"@">> \o slice(@, 2, Len(@))]

\* record_list[-1]["record"] = record_list[-1]["record"][:-1]
correct_last(record_list) ==
    [record_list EXCEPT ![Len(record_list)].record = slice(@, 0, -1)]

RECURSIVE drop_current_record(_, _)
\* line = file.readline(); while b"@" not in line[:3] and line: line =
\* file.readline(): the first line of the next entry (empty at the end of the
\* file) and the position after it
drop_current_record(buf, pos) ==
    LET line == readline(buf, pos)
    IN  IF line # <<>> /\ ~starts_entry(line)
        THEN drop_current_record(buf, pos + Len(line))
        ELSE [line |-> line, pos |-> pos + Len(line)]

\* remaining = line + file.read(); file.seek(seekpos);
\* file.write(replacement); seekpos = file.tell(); file.write(remaining);
\* file.truncate(); file.seek(seekpos)
replace_span(buf, seekpos, dropped, replacement) ==
    LET remaining == dropped.line \o read(buf, dropped.pos)
        written == write(buf, seekpos, replacement)
        new_seekpos == seekpos + Len(replacement)
        shifted == write(written, new_seekpos, remaining)
    IN  [buf |-> truncate(shifted, new_seekpos + Len(remaining)), pos |-> new_seekpos]

\* The state of a loop over the lines of the file: the bytes, the position
\* after the line read last, seekpos, that line and the ID of the entry it is in
start_reading(buf, current, todo) ==
    LET line == readline(buf, 0)
    IN  [buf |-> buf, pos |-> Len(line), seekpos |-> 0, line |-> line,
         current |-> current, todo |-> todo]

\* seekpos = file.tell(); line = file.readline()
next_line(buf, pos, current, todo) ==
    LET line == readline(buf, pos)
    IN  [buf |-> buf, pos |-> pos + Len(line), seekpos |-> pos, line |-> line,
         current |-> current, todo |-> todo]

RECURSIVE save_record_list_by_id_loop(_)
\* The while loop of Dataset._save_record_list_by_id; todo is record_list
save_record_list_by_id_loop(st) ==
    IF st.line = <<>>
    THEN st
    ELSE LET current == IF starts_entry(st.line) THEN id_of_line(st.line) ELSE st.current
         IN  IF \E k \in 1..Len(st.todo) : st.todo[k].ID = current
             THEN LET replacement == SelectSeq(st.todo, LAMBDA x : x.ID = current)[1].record
                      record_list == SelectSeq(st.todo, LAMBDA x : x.ID # current)
                      f == replace_span(st.buf, st.seekpos,
                                        drop_current_record(st.buf, st.pos), replacement)
                  IN  save_record_list_by_id_loop(next_line(f.buf, f.pos, current, record_list))
             ELSE save_record_list_by_id_loop(next_line(st.buf, st.pos, current, st.todo))

\* A variant that appends the records that matched no entry in any case
after_patch_appending(st, append_new) ==
    [buf |-> st.buf \o Concat([k \in 1..Len(st.todo) |-> st.todo[k].record]),
     not_written |-> <<>>]

\* The records that matched no entry are appended with append_new and
\* reported as not written without it
after_patch(st, append_new) ==
    [buf |-> IF append_new
             THEN st.buf \o Concat([k \in 1..Len(st.todo) |-> st.todo[k].record])
             ELSE st.buf,
     not_written |-> IF append_new THEN <<>> ELSE [k \in 1..Len(st.todo) |-> st.todo[k].ID]]

\* Dataset._save_record_list_by_id(records, append_new) on the bytes buf
save_record_list_by_id(buf, records_list, append_new) ==
    after_patch(save_record_list_by_id_loop(
                    start_reading(buf, <<"N", "O", "T", "S", "E", "T">>,
                                  correct_first(record_list_items(to_string(records_list))))),
                append_new)

RECURSIVE save_record_list_by_ID_loop(_)
\* The while loop of ReviewDataset.save_record_list_by_ID: the replacement is
\* [x["record"] for x in record_list][0]
save_record_list_by_ID_loop(st) ==
    IF st.line = <<>>
    THEN st
    ELSE LET current == IF starts_entry(st.line) THEN id_of_line(st.line) ELSE st.current
         IN  IF \E k \in 1..Len(st.todo) : st.todo[k].ID = current
             THEN LET replacement == st.todo[1].record
                      record_list == SelectSeq(st.todo, LAMBDA x : x.ID # current)
                      f == replace_span(st.buf, st.seekpos,
                                        drop_current_record(st.buf, st.pos), replacement)
                  IN  save_record_list_by_ID_loop(next_line(f.buf, f.pos, current, record_list))
             ELSE save_record_list_by_ID_loop(next_line(st.buf, st.pos, current, st.todo))

\* ReviewDataset.save_record_list_by_ID(record_list, append_new) on the bytes
\* buf, for a record_list that is not empty
save_record_list_by_ID(buf, record_list, append_new) ==
    after_patch(save_record_list_by_ID_loop(
                    start_reading(buf, <<"N", "O", "T", "S", "E", "T">>,
                                  correct_last(correct_first(record_list_items(dumps(record_list)))))),
                append_new)

RECURSIVE update_record_by_ID_loop(_, _, _)
\* The while loop of ReviewDataset.update_record_by_ID: it returns after the
\* first entry whose ID is that of new_record
update_record_by_ID_loop(st, ID, replacement) ==
    IF st.line = <<>>
    THEN st.buf
    ELSE LET current == IF starts_entry(st.line) THEN id_of_line(st.line) ELSE st.current
         IN  IF current = ID
             THEN replace_span(st.buf, st.seekpos,
                               drop_current_record(st.buf, st.pos), replacement).buf
             ELSE update_record_by_ID_loop(next_line(st.buf, st.pos, current, st.todo),
                                           ID, replacement)

\* ReviewDataset.update_record_by_ID(new_record, delete) on the bytes buf
update_record_by_ID(buf, new_record, delete) ==
    update_record_by_ID_loop(start_reading(buf, <<"N", "A">>, <<>>), new_record.ID,
                             IF delete THEN <<>> ELSE dumps(<<new_record>>))

RECURSIVE replace_field_loop(_, _, _)
\* The while loop of ReviewDataset.replace_field; todo is IDs
replace_field_loop(st, key, val) ==
    IF st.line = <<>>
    THEN st.buf
    ELSE LET current == IF starts_entry(st.line) THEN id_of_line(st.line) ELSE st.current
             replaces == /\ current \in Range(st.todo)
                         /\ slice(lstrip(st.line), 0, Len(key)) = key
             replacement == slice(st.line, 0, find(st.line, <<"{">>) + 1) \o val \o <<"}", ",", NL>>
         IN  IF replaces
             THEN LET IDs == list_remove(st.todo, current)
                      in_place == Len(replacement) = Len(st.line)
                      \* same length: seek(seekpos); write(replacement)
                      same == write(st.buf, st.seekpos, replacement)
                      \* other length: the rest of the file is written after
                      \* the replacement, and one more line is read
                      remaining == read(st.buf, st.pos)
                      new_seekpos == st.seekpos + Len(replacement)
                      shifted == truncate(write(write(st.buf, st.seekpos, replacement),
                                                new_seekpos, remaining),
                                          new_seekpos + Len(remaining))
                      buf == IF in_place THEN same ELSE shifted
                      pos == IF in_place
                             THEN st.seekpos + Len(replacement)
                             ELSE new_seekpos + Len(readline(shifted, new_seekpos))
                  IN  IF IDs = <<>>
                      THEN buf
                      ELSE replace_field_loop(next_line(buf, pos, current, IDs), key, val)
             ELSE replace_field_loop(next_line(st.buf, st.pos, current, st.todo), key, val)

\* ReviewDataset.replace_field(IDs, key, val_str) on the bytes buf
replace_field(buf, IDs, key, val_str) ==
    replace_field_loop(start_reading(buf, <<"N", "A">>, IDs), key, val_str)

----------------------------------------------------------------------------
(* Full saves, the full parse and the header-only parse *)

\* The names of RecordState that the records of the file use
state_names == {<<"m", "d", "_", "i", "m", "p", "o", "r", "t", "e", "d">>, <<"m", "d", "_", "p", "r", "e", "p", "a", "r", "e", "d">>, <<"m", "d", "_", "p", "r", "o", "c", "e", "s", "s", "e", "d">>}

\* Variant that writes the entries in the order of the list
save_records_as_given(records_list) ==
    Concat([k \in 1..Len(records_list) |-> entry_to_bibtex(records_list[k]) \o <<NL>>])

\* ReviewDataset.save_records: the values are cast to strings, the records
\* are sorted by ID and the file is rewritten with the rendered entries
save_records(records_list) == dumps(sorted_by_ID(records_list))

\* Dataset.save_records_dict_to_file: out.write(bibtex_str + "\n")
save_records_dict_to_file(records_list) == to_string(records_list) \o <<NL>>

\* ReviewDataset.load_records on the bytes buf: the parsed entries, status
\* cast with RecordState[v] where the key is there, doi in upper case
load_records_entries(buf) ==
    LET entries == loads(buf)
    IN  IF \E k \in 1..Len(entries) :
              entries[k].status # Absent /\ entries[k].status \notin state_names
        THEN [raised |-> "KeyError", records |-> <<>>]
        ELSE [raised |-> "none",
              records |-> [k \in 1..Len(entries) |->
                              [entries[k] EXCEPT !.doi = IF @ = Absent THEN @ ELSE upper(@)]]]

HEADER_LENGTH == 9

RECURSIVE read_next_record_header_str_loop(_, _)
\* The loop of __read_next_record_header_str over the lines still to read
\* (each with its newline); st holds data, first_entry_processed,
\* header_line_count and the strings yielded
read_next_record_header_str_loop(lines, st) ==
    IF lines = <<>>
    THEN IF contains(st.data, <<"@", "c", "o", "m", "m", "e", "n", "t">>) THEN st.yielded ELSE Append(st.yielded, st.data)
    ELSE LET line == Head(lines)
         IN  IF slice(line, 0, 1) = <<"%">> \/ line = <<NL>>
             THEN read_next_record_header_str_loop(Tail(lines), st)
             ELSE IF slice(line, 0, 1) # <<"@">>
             THEN read_next_record_header_str_loop(Tail(lines),
                      IF st.header_line_count < HEADER_LENGTH
                      THEN [st EXCEPT !.header_line_count = @ + 1, !.data = @ \o line]
                      ELSE st)
             ELSE read_next_record_header_str_loop(Tail(lines),
                      IF contains(line, <<"@", "c", "o", "m", "m", "e", "n", "t">>)
                      THEN [st EXCEPT !.data = line]
                      ELSE IF st.first_entry_processed
                      THEN [st EXCEPT !.yielded = Append(@, st.data),
                                      !.header_line_count = 0, !.data = line]
                      ELSE [st EXCEPT !.first_entry_processed = TRUE, !.data = line])

RECURSIVE readlines(_, _)
\* The lines readline() returns from position pos to the end of the file
readlines(buf, pos) ==
    LET line == readline(buf, pos)
    IN  IF line = <<>> THEN <<>> ELSE <<line>> \o readlines(buf, pos + Len(line))

\* __read_next_record_header_str on the bytes buf
read_next_record_header_str(buf) ==
    read_next_record_header_str_loop(readlines(buf, 0),
        [data |-> <<>>, first_entry_processed |-> FALSE, header_line_count |-> 0,
         yielded |-> <<>>])

\* __get_record_status_item: [ID, status], or the exception raised
get_record_status_item(r_header) ==
    LET rhlines == split(r_header, <<NL>>)
    IN  IF Len(rhlines) < 3
        THEN [raised |-> "ValueError", item |-> <<>>]
        ELSE IF ~contains(rhlines[3], <<"s", "t", "a", "t", "u", "s">>)
        THEN [raised |-> "StatusFieldValueError", item |-> <<>>]
        ELSE [raised |-> "none",
              item |-> <<id_of_line(rhlines[1]), slice(id_of_line(rhlines[3]), 0, -1)>>]

\* __get_record_header_item: [ID, origin, status] of the item it returns, or
\* the exception raised; ID is items.pop(0), the first line as it is
get_record_header_item(r_header) ==
    LET items == split(r_header, <<NL>>)
        value(line) == slice(line, find(line, <<"{">>) + 1, rfind(line, <<"}">>))
    IN  IF Len(items) < 2
        THEN [raised |-> "IndexError", item |-> <<>>]
        ELSE IF ~contains(items[2], <<"o", "r", "i", "g", "i", "n">>)
        THEN [raised |-> "RecordFormatError", item |-> <<>>]
        ELSE IF Len(items) < 3
        THEN [raised |-> "IndexError", item |-> <<>>]
        ELSE IF ~contains(items[3], <<"s", "t", "a", "t", "u", "s">>)
        THEN [raised |-> "StatusFieldValueError", item |-> <<>>]
        ELSE [raised |-> "none", item |-> <<items[1], value(items[2]), value(items[3])>>]

RECURSIVE collect_items(_, _)
\* A list comprehension over the items: the first exception ends it
collect_items(results, done) ==
    IF results = <<>>
    THEN [raised |-> "none", items |-> done]
    ELSE IF Head(results).raised # "none"
    THEN [raised |-> Head(results).raised, items |-> <<>>]
    ELSE collect_items(Tail(results), Append(done, Head(results).item))

\* ReviewDataset.get_record_state_list
get_record_state_list(buf) ==
    LET headers == read_next_record_header_str(buf)
    IN  collect_items([k \in 1..Len(headers) |-> get_record_status_item(headers[k])], <<>>)

\* ReviewDataset.get_record_header_list
get_record_header_list(buf) ==
    LET headers == read_next_record_header_str(buf)
    IN  collect_items([k \in 1..Len(headers) |-> get_record_header_item(headers[k])], <<>>)

----------------------------------------------------------------------------
(* The records file under patch writes *)

MaxEntries == 3
MaxBatch == 2

BibIds == <<Li9, X1, li9>>
BibOrigins == <<<<"a", "/", "X">>, <<"a", "/", "Y">>, <<"a", "/", "Z">>>>

\* The records the files and the batches are made of: one origin for each ID
PatchEntries ==
    {BibEntry(BibIds[i], BibOrigins[i], s, Absent) : i \in 1..Len(BibIds), s \in state_names}

\* The sets of at most n of the entries E with distinct IDs
EntrySets(E, n) ==
    {S \in SUBSET E : Cardinality(S) <= n /\ \A e, f \in S : e.ID = f.ID => e = f}

\* The entries of such a set as a list
as_list(S) ==
    [k \in 1..Cardinality(S) |->
        CHOOSE e \in S : Cardinality({f \in S : str_less(f.ID, e.ID)}) = k - 1]

status_key == key_chars["status"]
origin_key == key_chars["origin"]

\* The values replace_field is called with for a key
ReplaceVals(key) == IF key = status_key THEN state_names ELSE {<<"b", "/", "W">>}

FileCall(op, args, result, raised) == [op |-> op, args |-> args, result |-> result, raised |-> raised]

\* The file is one that a full save has written
InitPatch ==
    /\ \E S \in EntrySets(PatchEntries, MaxEntries) : main_references = save_records(as_list(S))
    /\ main_references_before = <<>>
    /\ file_call = NoFileCall

\* Dataset.save_records_dict(records, partial=True)
PartialSave ==
    /\ file_call.op = "none"
    /\ \E S \in EntrySets(PatchEntries, MaxBatch) \ {{}} :
          LET res == save_record_list_by_id(main_references, as_list(S), FALSE)
          IN  /\ main_references' = res.buf
              /\ file_call' = FileCall("Dataset._save_record_list_by_id",
                                       [records |-> as_list(S)], res.not_written, "none")
    /\ main_references_before' = main_references
    /\ UNCHANGED <<checkVars, trVars, idsVars, loadVars, guardVars, repoVars, allocVars, pdfVars, histVars, srcVars, appendVars>>

\* ReviewDataset.save_record_list_by_ID(record_list, append_new)
SaveRecordListByID ==
    /\ file_call.op = "none"
    /\ \E S \in EntrySets(PatchEntries, MaxBatch) \ {{}}, append_new \in BOOLEAN :
          LET res == save_record_list_by_ID(main_references, as_list(S), append_new)
          IN  /\ main_references' = res.buf
              /\ file_call' = FileCall("ReviewDataset.save_record_list_by_ID",
                                       [records |-> as_list(S), append_new |-> append_new],
                                       res.not_written, "none")
    /\ main_references_before' = main_references
    /\ UNCHANGED <<checkVars, trVars, idsVars, loadVars, guardVars, repoVars, allocVars, pdfVars, histVars, srcVars, appendVars>>

\* ReviewDataset.update_record_by_ID(new_record, delete)
UpdateRecordByID ==
    /\ file_call.op = "none"
    /\ \E new_record \in PatchEntries, delete \in BOOLEAN :
          /\ main_references' = update_record_by_ID(main_references, new_record, delete)
          /\ file_call' = FileCall("ReviewDataset.update_record_by_ID",
                                   [records |-> <<new_record>>, delete |-> delete], <<>>, "none")
    /\ main_references_before' = main_references
    /\ UNCHANGED <<checkVars, trVars, idsVars, loadVars, guardVars, repoVars, allocVars, pdfVars, histVars, srcVars, appendVars>>

\* ReviewDataset.replace_field(IDs, key, val_str)
ReplaceField ==
    /\ file_call.op = "none"
    /\ \E S \in EntrySets(PatchEntries, MaxBatch) \ {{}}, key \in {status_key, origin_key} :
          \E val_str \in ReplaceVals(key) :
              LET IDs == [k \in 1..Cardinality(S) |-> as_list(S)[k].ID]
              IN  /\ main_references' = replace_field(main_references, IDs, key, val_str)
                  /\ file_call' = FileCall("ReviewDataset.replace_field",
                                           [IDs |-> IDs, key |-> key, val_str |-> val_str],
                                           <<>>, "none")
    /\ main_references_before' = main_references
    /\ UNCHANGED <<checkVars, trVars, idsVars, loadVars, guardVars, repoVars, allocVars, pdfVars, histVars, srcVars, appendVars>>

\* l[::-1]
reversed(l) == [k \in 1..Len(l) |-> l[Len(l) + 1 - k]]

\* The lists a full save is called with: in the order of the IDs or against it
SaveLists ==
    {as_list(S) : S \in EntrySets(PatchEntries, MaxBatch)}
        \cup {reversed(as_list(S)) : S \in EntrySets(PatchEntries, MaxBatch)}

\* ReviewDataset.save_records(records)
SaveRecords ==
    /\ file_call.op = "none"
    /\ \E records_list \in SaveLists :
          /\ main_references' = save_records(records_list)
          /\ file_call' = FileCall("ReviewDataset.save_records",
                                   [records |-> records_list], <<>>, "none")
    /\ main_references_before' = main_references
    /\ UNCHANGED <<checkVars, trVars, idsVars, loadVars, guardVars, repoVars, allocVars, pdfVars, histVars, srcVars, appendVars>>

\* Dataset.save_records_dict_to_file(records)
SaveRecordsDictToFile ==
    /\ file_call.op = "none"
    /\ \E records_list \in SaveLists :
          /\ main_references' = save_records_dict_to_file(records_list)
          /\ file_call' = FileCall("Dataset.save_records_dict_to_file",
                                   [records |-> records_list], <<>>, "none")
    /\ main_references_before' = main_references
    /\ UNCHANGED <<checkVars, trVars, idsVars, loadVars, guardVars, repoVars, allocVars, pdfVars, histVars, srcVars, appendVars>>

NextPatch ==
    \/ SaveRecords
    \/ SaveRecordsDictToFile
    \/ PartialSave
    \/ SaveRecordListByID
    \/ UpdateRecordByID
    \/ ReplaceField

InitPatchFiles ==
    InitPatch /\ InitCheck /\ IdleTr /\ IdleIds /\ IdleLoad /\ IdleGuard /\ IdleRepo /\ IdleAlloc
    /\ IdlePdfs /\ IdleHistory /\ IdleSrc /\ IdleAppend

SpecPatch == InitPatchFiles /\ [][NextPatch]_vars

----------------------------------------------------------------------------
(* The records file under full saves and parses *)

\* The records of these files: with or without a status, with or without a
\* doi in lower case
SerialEntries ==
    {BibEntry(BibIds[i], BibOrigins[i], s, d) :
        i \in 1..2, s \in {<<"m", "d", "_", "i", "m", "p", "o", "r", "t", "e", "d">>, <<"m", "d", "_", "p", "r", "o", "c", "e", "s", "s", "e", "d">>, Absent}, d \in {Absent, <<"1", "/", "a">>}}

SerialLists == {as_list(S) : S \in EntrySets(SerialEntries, MaxBatch)}

\* The file is one that a full save has written
InitSerial ==
    /\ \E records_list \in SerialLists : main_references = save_records(records_list)
    /\ main_references_before = <<>>
    /\ file_call = NoFileCall

\* ReviewDataset.save_records(records) followed by ReviewDataset.load_records()
SaveAndLoad ==
    /\ file_call.op = "none"
    /\ \E records_list \in SerialLists :
          LET loaded == load_records_entries(save_records(records_list))
          IN  /\ main_references' = save_records(records_list)
              /\ file_call' = FileCall("save_records;load_records",
                                       [records |-> records_list], loaded.records, loaded.raised)
    /\ main_references_before' = main_references
    /\ UNCHANGED <<checkVars, trVars, idsVars, loadVars, guardVars, repoVars, allocVars, pdfVars, histVars, srcVars, appendVars>>

\* Dataset.save_records_dict_to_file(records) followed by a full parse
SaveToFileAndLoad ==
    /\ file_call.op = "none"
    /\ \E records_list \in SerialLists :
          LET loaded == load_records_entries(save_records_dict_to_file(records_list))
          IN  /\ main_references' = save_records_dict_to_file(records_list)
              /\ file_call' = FileCall("save_records_dict_to_file;load_records",
                                       [records |-> records_list], loaded.records, loaded.raised)
    /\ main_references_before' = main_references
    /\ UNCHANGED <<checkVars, trVars, idsVars, loadVars, guardVars, repoVars, allocVars, pdfVars, histVars, srcVars, appendVars>>

\* records = self.load_records(); self.save_records(records), as at the end
\* of set_IDs
LoadAndSave ==
    /\ file_call.op = "none"
    /\ LET loaded == load_records_entries(main_references)
       IN  /\ main_references' = IF loaded.raised = "none"
                                 THEN save_records(loaded.records)
                                 ELSE main_references
           /\ file_call' = FileCall("load_records;save_records", <<>>,
                                    loaded.records, loaded.raised)
    /\ main_references_before' = main_references
    /\ UNCHANGED <<checkVars, trVars, idsVars, loadVars, guardVars, repoVars, allocVars, pdfVars, histVars, srcVars, appendVars>>

\* ReviewDataset.load_records()
LoadRecordsEntries ==
    /\ file_call.op = "none"
    /\ LET loaded == load_records_entries(main_references)
       IN  file_call' = FileCall("ReviewDataset.load_records", <<>>,
                                 loaded.records, loaded.raised)
    /\ main_references_before' = main_references
    /\ UNCHANGED <<main_references, checkVars, trVars, idsVars, loadVars, guardVars, repoVars, allocVars, pdfVars, histVars, srcVars, appendVars>>

\* ReviewDataset.get_record_state_list()
GetRecordStateList ==
    /\ file_call.op = "none"
    /\ LET res == get_record_state_list(main_references)
       IN  file_call' = FileCall("ReviewDataset.get_record_state_list", <<>>,
                                 res.items, res.raised)
    /\ main_references_before' = main_references
    /\ UNCHANGED <<main_references, checkVars, trVars, idsVars, loadVars, guardVars, repoVars, allocVars, pdfVars, histVars, srcVars, appendVars>>

\* ReviewDataset.get_record_header_list()
GetRecordHeaderList ==
    /\ file_call.op = "none"
    /\ LET res == get_record_header_list(main_references)
       IN  file_call' = FileCall("ReviewDataset.get_record_header_list", <<>>,
                                 res.items, res.raised)
    /\ main_references_before' = main_references
    /\ UNCHANGED <<main_references, checkVars, trVars, idsVars, loadVars, guardVars, repoVars, allocVars, pdfVars, histVars, srcVars, appendVars>>

NextSerial ==
    \/ SaveAndLoad
    \/ SaveToFileAndLoad
    \/ LoadAndSave
    \/ LoadRecordsEntries
    \/ GetRecordStateList
    \/ GetRecordHeaderList

InitSerialFiles ==
    InitSerial /\ InitCheck /\ IdleTr /\ IdleIds /\ IdleLoad /\ IdleGuard /\ IdleRepo /\ IdleAlloc
    /\ IdlePdfs /\ IdleHistory /\ IdleSrc /\ IdleAppend

SpecSerial == InitSerialFiles /\ [][NextSerial]_vars

----------------------------------------------------------------------------
(* The search over a directory of PDFs, and reprocess_id *)

PdfPaths == {"a.pdf", "b.pdf"}

PdfIds == {"c1", "c2"}

FeedName == "pdfs.bib"

\* The record has no colrev_pdf_id
NoPdfId == "none"

FeedFilenames == {"pdfs.bib", "data/search/pdfs.bib"}

\* f"{source}/{ID}"
origin_of(source, id) == <<source, id>>

\* Path(...).is_file() for a PDF of the project directory
is_file(files, path) == \E f \in files : f.path = path

\* records = {k: v for k, v in records.items() if v["colrev_origin"]}
drop_records_without_origin(recs) == SelectSeq(recs, LAMBDA r : r.colrev_origin # <<>>)

with_file(r, path) == [r EXCEPT !.file = path]

set_file_at(recs, i, path) == [recs EXCEPT ![i] = with_file(recs[i], path)]

RECURSIVE first_pdf_with_id(_, _, _)
\* The first PDF of the glob whose colrev_pdf_id is cpid, or 0
first_pdf_with_id(glob, cpid, k) ==
    IF k > Len(glob) THEN 0
    ELSE IF glob[k].colrev_pdf_id = cpid THEN k
    ELSE first_pdf_with_id(glob, cpid, k + 1)

\* __update_if_pdf_renamed: the new path of the PDF, or Absent
update_if_pdf_renamed(record_dict, recs, search_source, glob) ==
    LET c_rec_l == {i \in 1..Len(recs) :
                        origin_of(search_source, record_dict.ID) \in Range(recs[i].colrev_origin)}
    IN  IF Cardinality(c_rec_l) # 1 THEN [updated |-> FALSE]
        ELSE LET c_rec == CHOOSE i \in c_rec_l : TRUE
             IN  IF recs[c_rec].colrev_pdf_id = NoPdfId THEN [updated |-> FALSE]
                 ELSE LET k == first_pdf_with_id(glob, recs[c_rec].colrev_pdf_id, 1)
                      IN  IF k = 0 THEN [updated |-> FALSE]
                          ELSE [updated |-> TRUE, c_rec |-> c_rec, file |-> glob[k].path]

RECURSIVE check_feed(_, _, _, _, _, _, _)
\* for record_dict in search_rd.values(): ...
check_feed(feed, recs, to_remove, files, filename, glob, i) ==
    IF i > Len(feed) THEN [search_rd |-> feed, records |-> recs, to_remove |-> to_remove]
    ELSE IF is_file(files, feed[i].file)
         THEN check_feed(feed, recs, to_remove, files, filename, glob, i + 1)
    ELSE LET u == IF recs # <<>>
                  THEN update_if_pdf_renamed(feed[i], recs, filename, glob)
                  ELSE [updated |-> FALSE]
         IN  IF u.updated
             THEN check_feed(set_file_at(feed, i, u.file), set_file_at(recs, u.c_rec, u.file),
                             to_remove, files, filename, glob, i + 1)
             ELSE check_feed(feed, recs, Append(to_remove, origin_of(FeedName, feed[i].ID)),
                             files, filename, glob, i + 1)

RECURSIVE remove_each(_, _, _)
\* if origin_to_remove in colrev_origin: colrev_origin.remove(origin_to_remove)
remove_each(colrev_origin, to_remove, k) ==
    IF k > Len(to_remove) THEN colrev_origin
    ELSE IF to_remove[k] \in Range(colrev_origin)
         THEN remove_each(RemoveAt(colrev_origin, IndexOf(colrev_origin, to_remove[k])),
                          to_remove, k + 1)
    ELSE remove_each(colrev_origin, to_remove, k + 1)

without_origins(r, to_remove) ==
    [r EXCEPT !.colrev_origin = remove_each(r.colrev_origin, to_remove, 1)]

remove_origins(recs, to_remove) == [i \in 1..Len(recs) |-> without_origins(recs[i], to_remove)]

\* __remove_records_if_pdf_no_longer_exists: the feed file and the records file after it
remove_records_if_pdf_no_longer_exists(feed_file, dataset_file, files, filename, glob) ==
    IF ~feed_file.is_file THEN [search_rd |-> feed_file, records |-> dataset_file]
    ELSE LET recs == IF dataset_file.is_file THEN dataset_file.entries ELSE <<>>
             c == check_feed(feed_file.entries, recs, <<>>, files, filename, glob, 1)
             kept == SelectSeq(c.search_rd, LAMBDA x : is_file(files, x.file))
         IN  [search_rd |-> IF kept # <<>> THEN File(kept) ELSE feed_file,
              records |-> IF dataset_file.is_file
                          THEN File(drop_records_without_origin(
                                        remove_origins(c.records, c.to_remove)))
                          ELSE dataset_file]

\* reprocess_id, for one ID: records = [x for x in records if id != x["ID"]]
reprocess_id(recs, id) == SelectSeq(recs, LAMBDA x : id # x.ID)

FeedRecord(id, file) == [ID |-> id, file |-> file]

DatasetRecord(id, colrev_origin, file, cpid) ==
    [ID |-> id, colrev_origin |-> colrev_origin, file |-> file, colrev_pdf_id |-> cpid]

PdfDirs ==
    {fs \in SUBSET [path : PdfPaths, colrev_pdf_id : PdfIds] :
        \A f, g \in fs : f.path = g.path => f = g}

Globs(fs) ==
    {g \in [1..Cardinality(fs) -> fs] :
        \A i, j \in 1..Len(g) : g[i] = g[j] => i = j}

Feeds ==
    {<<>>}
    \cup {<<FeedRecord(id, f)>> : id \in {"1", "2"}, f \in PdfPaths}
    \cup {<<FeedRecord("1", f), FeedRecord("2", g)>> : f \in PdfPaths, g \in PdfPaths}

FirstRecords ==
    {DatasetRecord("Li9", o, "a.pdf", c) :
        o \in {<<origin_of(FeedName, "1")>>,
               <<origin_of(FeedName, "1"), origin_of("a.bib", "X")>>},
        c \in {NoPdfId, "c1"}}

SecondRecords ==
    {DatasetRecord("X1", o, "b.pdf", NoPdfId) :
        o \in {<<origin_of(FeedName, "2")>>, <<origin_of("a.bib", "X")>>}}

Datasets ==
    {<<>>} \cup {<<r>> : r \in FirstRecords \cup SecondRecords}
           \cup {<<r, q>> : r \in FirstRecords, q \in SecondRecords}

InitPdfs ==
    /\ pdf_files \in PdfDirs
    /\ search_rd \in {NoFile} \cup {File(f) : f \in Feeds}
    /\ dataset_records \in {NoFile} \cup {File(d) : d \in Datasets}
    /\ search_call = NoSearchCall

SearchCall(op, arg, before, raised) ==
    [op |-> op, arg |-> arg, records_before |-> before, raised |-> raised]

\* PDFDirSearchSource.run_search, up to the removal of the records of missing PDFs
RemoveRecordsIfPdfNoLongerExists ==
    \E filename \in FeedFilenames, glob \in Globs(pdf_files) :
        LET r == remove_records_if_pdf_no_longer_exists(search_rd, dataset_records,
                                                        pdf_files, filename, glob)
        IN  /\ search_rd' = r.search_rd
            /\ dataset_records' = r.records
            /\ search_call' = SearchCall("run_search", filename, dataset_records, "none")
            /\ UNCHANGED pdf_files
            /\ UNCHANGED <<checkVars, trVars, idsVars, loadVars, guardVars, repoVars, allocVars,
                           fileVars, histVars, srcVars, appendVars>>

\* ReviewDataset.reprocess_id
ReprocessId ==
    \E id \in {"all", "Li9", "X1"} :
        /\ IF ~dataset_records.is_file
           THEN /\ search_call' = SearchCall("reprocess_id", id, dataset_records,
                                             "FileNotFoundError")
                /\ UNCHANGED dataset_records
           ELSE /\ search_call' = SearchCall("reprocess_id", id, dataset_records, "none")
                /\ dataset_records' = IF id = "all" THEN NoFile
                                      ELSE File(reprocess_id(dataset_records.entries, id))
        /\ UNCHANGED <<pdf_files, search_rd>>
        /\ UNCHANGED <<checkVars, trVars, idsVars, loadVars, guardVars, repoVars, allocVars,
                       fileVars, histVars, srcVars, appendVars>>

NextPdfs ==
    \/ RemoveRecordsIfPdfNoLongerExists
    \/ ReprocessId

InitPdfDirs ==
    InitPdfs /\ InitCheck /\ IdleTr /\ IdleIds /\ IdleLoad /\ IdleGuard /\ IdleRepo /\ IdleAlloc
    /\ IdleFile /\ IdleHistory /\ IdleSrc /\ IdleAppend

SpecPdfs == InitPdfDirs /\ [][NextPdfs]_vars

----------------------------------------------------------------------------
(* The records file in the commits of the repository *)

MaxCommits == 3

Shas == <<"c1", "c2", "c3", "c4">>

\* The records of the records file of a commit
HistoryRecords ==
    {<<>>,
     <<BibEntry(Li9, <<"a", "/", "X">>, <<"m", "d", "_", "i", "m", "p", "o", "r", "t", "e", "d">>, Absent)>>,
     <<BibEntry(Li9, <<"a", "/", "X", ";", "a", "/", "Z">>, <<"m", "d", "_", "p", "r", "e", "p", "a", "r", "e", "d">>, Absent)>>,
     <<BibEntry(Li9, <<"a", "/", "X">>, <<"m", "d", "_", "p", "r", "o", "c", "e", "s", "s", "e", "d">>, Absent), BibEntry(X1, <<"a", "/", "Y">>, <<"m", "d", "_", "i", "m", "p", "o", "r", "t", "e", "d">>, Absent)>>}

GitCommit(hexsha, filecontents) == [hexsha |-> hexsha, filecontents |-> filecontents]

commit_at(files, i) == GitCommit(Shas[i], to_string(files[i]))

\* The commits whose records files hold the records of files, oldest first
commits_of(files) == [i \in 1..Len(files) |-> commit_at(files, i)]

\* git_repo.iter_commits(): the commits from HEAD back to the first one
iter_commits(cs) == reversed(cs)

RECURSIVE load_records_from_history_loop(_, _, _, _, _)
\* for current_commit in self._git_repo.iter_commits(): ...
load_records_from_history_loop(walk, commit_sha, reached_target_commit, yielded, k) ==
    IF k > Len(walk) THEN yielded
    ELSE IF commit_sha # "" /\ ~reached_target_commit /\ commit_sha # walk[k].hexsha
         THEN load_records_from_history_loop(walk, commit_sha, FALSE, yielded, k + 1)
    ELSE LET records_dict == loads(walk[k].filecontents)
         IN  load_records_from_history_loop(
                 walk, commit_sha, TRUE,
                 IF records_dict # <<>>
                 THEN Append(yielded, [commit |-> walk[k].hexsha, records_dict |-> records_dict])
                 ELSE yielded,
                 k + 1)

\* Dataset.load_records_from_history: what the generator yields, with the commit
\* each records_dict was read from
load_records_from_history(cs, commit_sha) ==
    load_records_from_history_loop(iter_commits(cs), commit_sha, FALSE, <<>>, 1)

InitHistory ==
    /\ \E n \in 0..MaxCommits : \E files \in [1..n -> HistoryRecords] :
           commits = commits_of(files)
    /\ history_call = NoHistoryCall

LoadRecordsFromHistory ==
    \E commit_sha \in {""} \cup Range(Shas) :
        /\ history_call' = [commit_sha |-> commit_sha,
                            yielded |-> load_records_from_history(commits, commit_sha),
                            called |-> TRUE]
        /\ UNCHANGED commits
        /\ UNCHANGED <<checkVars, trVars, idsVars, loadVars, guardVars, repoVars, allocVars,
                       fileVars, pdfVars, srcVars, appendVars>>

RECURSIVE iter_commits_paths(_, _)
\* git_repo.iter_commits(paths=RECORDS_FILE_RELATIVE_GIT): the commits that changed
\* the records file, from the newest back to the one that added it
iter_commits_paths(cs, n) ==
    IF n = 0 THEN <<>>
    ELSE IF n = 1 \/ cs[n].filecontents # cs[n - 1].filecontents
         THEN <<cs[n]>> \o iter_commits_paths(cs, n - 1)
    ELSE iter_commits_paths(cs, n - 1)

\* A variant that takes the last revision of the list: list(revlist)[-1][1]
committed_filecontents_of_last(cs) ==
    LET revlist == iter_commits_paths(cs, Len(cs))
    IN  revlist[Len(revlist)].filecontents

\* filecontents = list(revlist)[0][1]
committed_filecontents(cs) ==
    LET revlist == iter_commits_paths(cs, Len(cs))
    IN  revlist[1].filecontents

record_header_item(e) == Entry(e.ID, e.status, split(e.origin, <<";">>))

header_items_of(entries) == [i \in 1..Len(entries) |-> record_header_item(entries[i])]

\* BIBLoader(load_string=records_string).get_record_header_items(): ID, status
\* and the list of the origins of every entry
get_record_header_items(records_string) == header_items_of(loads(records_string))

\* Dataset.get_committed_origin_state_dict
get_committed_origin_state_dict(cs) ==
    IF iter_commits_paths(cs, Len(cs)) = <<>>
    THEN [loaded |-> TRUE, raised |-> "IndexError", dict |-> <<>>]
    ELSE get_origin_state_dict(get_record_header_items(committed_filecontents(cs)))

GetCommittedOriginStateDict ==
    /\ origin_states' = get_committed_origin_state_dict(commits)
    /\ UNCHANGED <<checkVars, trVars, idsVars, guardVars, repoVars, allocVars,
                   fileVars, pdfVars, histVars, srcVars, appendVars>>

NextHistory ==
    \/ LoadRecordsFromHistory
    \/ GetCommittedOriginStateDict

InitHistories ==
    InitHistory /\ InitCheck /\ IdleTr /\ IdleIds /\ IdleLoad /\ IdleGuard /\ IdleRepo /\ IdleAlloc
    /\ IdleFile /\ IdlePdfs /\ IdleSrc /\ IdleAppend

SpecHistory == InitHistories /\ [][NextHistory]_vars

----------------------------------------------------------------------------
(* The temporary identifiers made from the author and year fields *)

FamilyNames == {<<"S", "m", "i", "t", "h">>, <<"L", "i">>, <<"N", "g">>}

\* "Family, J"
AuthorOf(family) == family \o <<",", " ", "J">>

\* The author fields: one to three authors with distinct family names
AuthorFields ==
    {AuthorOf(f) : f \in FamilyNames}
    \cup {AuthorOf(fg[1]) \o and_sep \o AuthorOf(fg[2]) :
              fg \in {p \in FamilyNames \X FamilyNames : p[1] # p[2]}}
    \cup {AuthorOf(t[1]) \o and_sep \o AuthorOf(t[2]) \o and_sep \o AuthorOf(t[3]) :
              t \in {p \in FamilyNames \X FamilyNames \X FamilyNames :
                         p[1] # p[2] /\ p[1] # p[3] /\ p[2] # p[3]}}

TempIdRecords == [author : {<<>>} \cup AuthorFields, year : {<<>>, <<"2", "0", "2", "0">>}]

NoTempId == [impl |-> "none", record |-> <<>>, id_pattern |-> "", temp_id |-> <<>>]

InitTempId ==
    \E record \in TempIdRecords, id_pattern \in {"first_author_year", "three_authors_year"} :
        alloc = [NoTempId EXCEPT !.record = record, !.id_pattern = id_pattern]

\* Dataset._generate_temp_id for a record that is not in the local index
GenerateTempId ==
    /\ alloc.impl = "none"
    /\ alloc' = [alloc EXCEPT !.impl = "Dataset._generate_temp_id",
                              !.temp_id = generate_temp_id(alloc.record, alloc.id_pattern)]
    /\ UNCHANGED <<checkVars, trVars, idsVars, loadVars, guardVars, repoVars, fileVars, pdfVars, histVars, srcVars, appendVars>>

\* ReviewDataset.__generate_ID_blacklist up to the temporary ID
GenerateTempID ==
    /\ alloc.impl = "none"
    /\ alloc' = [alloc EXCEPT !.impl = "ReviewDataset.__generate_ID_blacklist",
                              !.temp_id = generate_temp_ID(alloc.record, alloc.id_pattern)]
    /\ UNCHANGED <<checkVars, trVars, idsVars, loadVars, guardVars, repoVars, fileVars, pdfVars, histVars, srcVars, appendVars>>

NextTempId ==
    \/ GenerateTempId
    \/ GenerateTempID

InitTempIds ==
    InitTempId /\ InitCheck /\ IdleTr /\ IdleIds /\ IdleLoad /\ IdleGuard /\ IdleRepo /\ IdleFile
    /\ IdlePdfs /\ IdleHistory /\ IdleSrc /\ IdleAppend

SpecTempIds == InitTempIds /\ [][NextTempId]_vars

----------------------------------------------------------------------------
(* Load.load_source_records on a store and the file of one search source *)

MaxSource == 2

\* source.search_source.get_origin_prefix()
OriginPrefix == <<"a", ".", "b", "i", "b">>

\* f"{origin_prefix}/{source_record['ID']}"
record_origin(origin_prefix, ID) == origin_prefix \o <<"/">> \o ID

\* source_record.update(colrev_origin=[record_origin]); set_status(md_retrieved)
retrieved(source_record, origin_prefix) ==
    Record(source_record.ID, "md_retrieved", source_record.author, source_record.year,
           <<record_origin(origin_prefix, source_record.ID)>>)

all_retrieved(source_records_list, origin_prefix) ==
    [i \in 1..Len(source_records_list) |-> retrieved(source_records_list[i], origin_prefix)]

origins_of_headers(record_header_list) ==
    [i \in 1..Len(record_header_list) |-> record_header_list[i].origin]

\* Load._get_currently_imported_origin_list
get_currently_imported_origin_list(recs) == Concat(origins_of_headers(values(recs)))

\* A variant of the selection that keeps every record of the source
select_all_records(source_records_list, imported_origins) == source_records_list

\* [x for x in source_records_list if x[Fields.ORIGIN][0] not in imported_origins]
select_new_records(source_records_list, imported_origins) ==
    SelectSeq(source_records_list, LAMBDA x : x.origin[1] \notin Range(imported_origins))

\* Load.setup_source_for_load: the source_records_list handed to setup_for_load
setup_source_for_load(source_records_list, origin_prefix, recs) ==
    select_new_records(all_retrieved(source_records_list, origin_prefix),
                       get_currently_imported_origin_list(recs))

\* A variant of _import_record that leaves the status as it is
import_record_status_kept(record_dict) == record_dict

\* Load._import_record
import_record(record_dict) ==
    IF record_dict.status \in {"md_retrieved", "md_needs_manual_preparation"}
    THEN set_status(record_dict, "md_imported")
    ELSE record_dict

with_ID(record_dict, id) == [record_dict EXCEPT !.ID = id]

RECURSIVE load_source_records_loop(_, _, _)
\* for source_record in source.search_source.source_records_list: ...
load_source_records_loop(recs, source_records_list, k) ==
    IF k > Len(source_records_list)
    THEN [records |-> recs, source_records_list |-> source_records_list]
    ELSE LET source_record == import_record(source_records_list[k])
             next_unique_id == load_source_records_id(source_record.ID, keys(recs))
             imported == with_ID(source_record, next_unique_id)
         IN  load_source_records_loop(dict_set(recs, next_unique_id, imported),
                                      [source_records_list EXCEPT ![k] = imported], k + 1)

ids_of(source_records_list) == {source_records_list[i].ID : i \in 1..Len(source_records_list)}

\* Load.load_source_records: the records it saves
load_source_records(recs, source, keep_ids, force_mode, id_pattern) ==
    IF source = <<>>
    THEN [records |-> recs, source_records_list |-> <<>>, raised |-> "ImportException"]
    ELSE LET to_load == setup_source_for_load(source, OriginPrefix, recs)
             loaded == load_source_records_loop(recs, to_load, 1)
         IN  [records |-> IF Len(to_load) = 0 \/ keep_ids
                          THEN loaded.records
                          ELSE set_ids(loaded.records,
                                       Selected(TRUE, ids_of(loaded.source_records_list)),
                                       force_mode, id_pattern).records,
              source_records_list |-> to_load,
              raised |-> "none"]

SourceIds == {Li9, X1, li9}

SourceRecords == [ID : SourceIds, author : StoreAuthors, year : {StoreYear}]

SourceFiles == {as_list(S) : S \in EntrySets(SourceRecords, MaxSource)}

\* Li9 comes from another source, and has the ID of a record of this source
OtherLi9 == Item(Li9, Record(Li9, "md_processed", AuthorLi, StoreYear, <<<<"b", ".", "b", "i", "b", "/", "Q">>>>))

\* Li9 was imported from this source before
ImportedLi9 ==
    Item(Li9, Record(Li9, "md_imported", AuthorLi, StoreYear, <<record_origin(OriginPrefix, Li9)>>))

\* X1 was imported from this source and merged with a record of another source
MergedX1 ==
    Item(X1, Record(X1, "md_prepared", AuthorLiWu, StoreYear,
                    <<record_origin(OriginPrefix, X1), <<"b", ".", "b", "i", "b", "/", "R">>>>))

LoadStores ==
    {<<>>, <<OtherLi9>>, <<ImportedLi9>>, <<MergedX1>>, <<OtherLi9, MergedX1>>,
     <<MergedX1, ImportedLi9>>}

InitSrc ==
    /\ records \in LoadStores
    /\ ids_before = <<>>
    /\ ids_call = NoCall
    /\ ids_result = NoResult
    /\ source_file \in SourceFiles
    /\ load_call = NoLoadCall

LoadSourceRecordsOfSource ==
    \E keep_ids \in BOOLEAN, force_mode \in BOOLEAN, id_pattern \in IdPatterns :
        LET res == load_source_records(records, source_file, keep_ids, force_mode, id_pattern)
        IN  /\ records' = res.records
            /\ load_call' = [op |-> "load_source_records", keep_ids |-> keep_ids,
                             id_pattern |-> id_pattern, records_before |-> records,
                             source_records_list |-> res.source_records_list,
                             raised |-> res.raised]
            /\ UNCHANGED <<source_file, ids_before, ids_call, ids_result>>
            /\ UNCHANGED <<checkVars, trVars, loadVars, guardVars, repoVars, allocVars,
                           fileVars, pdfVars, histVars, appendVars>>

NextSrc == LoadSourceRecordsOfSource

InitSources ==
    InitSrc /\ InitCheck /\ IdleTr /\ IdleLoad /\ IdleGuard /\ IdleRepo /\ IdleAlloc
    /\ IdleFile /\ IdlePdfs /\ IdleHistory /\ IdleAppend

SpecSources == InitSources /\ [][NextSrc]_vars

----------------------------------------------------------------------------
(* Load.ensure_append_only on the history of a search file *)

MaxRevisions == 3

\* str.startswith(prefix)
startswith(s, prefix) == Len(prefix) <= Len(s) /\ SubSeq(s, 1, Len(prefix)) = prefix

\* git_repo.iter_commits(paths=str(file)): the versions of the commits that
\* changed the file, the newest first
revlist_of(revisions) == reversed(revisions)

RECURSIVE ensure_append_only_loop(_, _, _)
\* for commit, filecontents in list(revlist): ...
ensure_append_only_loop(revlist, prior_file_content, k) ==
    IF k > Len(revlist) THEN [raised |-> FALSE, prior_file_content |-> prior_file_content]
    ELSE IF ~startswith(revlist[k], prior_file_content)
         THEN [raised |-> TRUE, prior_file_content |-> prior_file_content]
    ELSE ensure_append_only_loop(revlist, remove_char(revlist[k], "\r"), k + 1)

\* Load.ensure_append_only: "ok" if it returns, or the exception it raises
ensure_append_only(revisions, file) ==
    LET checked == ensure_append_only_loop(revlist_of(revisions), <<>>, 1)
        current_contents == remove_char(file, "\r")
    IN  IF checked.raised THEN "AppendOnlyViolation"
        ELSE IF ~startswith(current_contents, checked.prior_file_content)
        THEN "AppendOnlyViolation"
        ELSE "ok"

SearchFileTexts == {<<"a">>, <<"a", "b">>, <<"a", "b", "c">>, <<"b">>}

InitAppend ==
    /\ \E n \in 0..MaxRevisions :
           file_revisions \in {r \in [1..n -> SearchFileTexts] :
                                   \A i \in 1..(n - 1) : r[i] # r[i + 1]}
    /\ search_file \in SearchFileTexts
    /\ append_only = "not called"

EnsureAppendOnly ==
    /\ append_only' = ensure_append_only(file_revisions, search_file)
    /\ UNCHANGED <<file_revisions, search_file>>
    /\ UNCHANGED <<checkVars, trVars, idsVars, loadVars, guardVars, repoVars, allocVars,
                   fileVars, pdfVars, histVars, srcVars>>

NextAppend == EnsureAppendOnly

InitSearchFiles ==
    InitAppend /\ InitCheck /\ IdleTr /\ IdleIds /\ IdleLoad /\ IdleGuard /\ IdleRepo /\ IdleAlloc
    /\ IdleFile /\ IdlePdfs /\ IdleHistory /\ IdleSrc

SpecAppend == InitSearchFiles /\ [][NextAppend]_vars

----------------------------------------------------------------------------
(* Properties of set_ids *)

\* The records of a store whose status is at or after md_processed
Propagated(d) == {i \in 1..Len(d) : d[i].val.status \in get_post_x_states("md_processed")}

C2_PropagatedIdsKept ==
    ids_call.impl # "none" =>
        \A i \in Propagated(ids_before) :
            \E j \in 1..Len(records) :
                /\ records[j].val.origin = ids_before[i].val.origin
                /\ records[j].val.ID = ids_before[i].val.ID

----------------------------------------------------------------------------
(* Properties of the transition lookup *)

\* C6: is_valid_transition(from, to) is true exactly for the pairs of the
\* fixed transition table and false for every other pair; (md_imported,
\* md_processed) is invalid and (md_prepared, md_processed) is valid.
C6_TableLookup ==
    tr_valid # "unset" =>
        /\ (tr_valid = "valid") <=> (<<tr_from, tr_to>> \in TransitionTable)
        /\ (tr_from = "md_imported" /\ tr_to = "md_processed") => tr_valid = "invalid"
        /\ (tr_from = "md_prepared" /\ tr_to = "md_processed") => tr_valid = "valid"

\* C6 witness: the lookup of (md_imported, md_processed) has answered invalid
C6_Witness ==
    /\ tr_from = "md_imported"
    /\ tr_to = "md_processed"
    /\ tr_valid = "invalid"

----------------------------------------------------------------------------
(* Properties of the consistency checks *)

Ran == check_result # NotRun

\* The origins declared in a records file
Origins(f) == UNION {Range(f[i].origin) : i \in 1..Len(f)}

\* The origins of the last commit that the working tree no longer declares
RemovedOrigins == Origins(prior_file) \ Origins(records_file)

\* C3 as stated: for every origin of the prior committed snapshot, whatever
\* its prior status, that is absent from the current snapshot, the check
\* raises the removed-origin error naming a removed origin (or the error of
\* an earlier check: duplicate ids, missing, broken or non-unique origins).
C3_RemovedOriginRaises ==
    (Ran /\ RemovedOrigins # {}) =>
        \/ check_result.kind = "DuplicatesError"
        \/ /\ check_result.kind = "OriginError"
           /\ check_result.what = "origin removed" => check_result.arg \in RemovedOrigins

\* C4 as stated: for every origin whose status in the prior snapshot was
\* md_processed or any later state, if the identifier of the record owning the
\* origin differs between prior and current snapshot, the check raises
\* PropagatedIdChangeError (or the error of an earlier check).
C4_ChangedIdRaises ==
    Ran =>
        \A i \in 1..Len(prior_file), j \in 1..Len(records_file) :
            ( /\ prior_file[i].status \in persisted_states
              /\ Range(prior_file[i].origin) \cap Range(records_file[j].origin) # {}
              /\ prior_file[i].ID # records_file[j].ID )
            => check_result.kind \in {"PropagatedIDChange", "DuplicatesError", "OriginError",
                                      "FieldError", "StatusFieldValueError",
                                      "StatusTransitionError"}

\* C5 as stated: for every origin of every record of the current snapshot
\* whose prior status differs from the record's current status, a pair
\* (prior status, current status) outside the transition table makes the check
\* raise the illegal-transition error (or the error of an earlier check); this
\* holds for each origin of a merged record, not only for its first.
C5_IllegalTransitionRaises ==
    Ran =>
        \A i \in 1..Len(prior_file), j \in 1..Len(records_file) :
            ( /\ Range(prior_file[i].origin) \cap Range(records_file[j].origin) # {}
              /\ prior_file[i].status # records_file[j].status
              /\ <<prior_file[i].status, records_file[j].status>> \notin TransitionTable )
            => check_result.kind \in {"StatusTransitionError", "StatusFieldValueError",
                                      "DuplicatesError", "OriginError", "FieldError"}

\* C7 as stated: rev_synthesized, rev_excluded, pdf_not_available and
\* rev_prescreen_excluded are terminal: once an origin's committed status is one
\* of them, every later snapshot accepted by the check gives that origin the
\* same status.
C7_TerminalStatusKept ==
    [][ \A i \in 1..Len(prior_file) :
          prior_file[i].status \in {"rev_synthesized", "rev_excluded", "pdf_not_available",
                                    "rev_prescreen_excluded"}
          => \A j \in 1..Len(prior_file') :
                Range(prior_file[i].origin) \cap Range(prior_file'[j].origin) # {}
                => prior_file'[j].status = prior_file[i].status ]_vars

\* C9 as stated, for the three lowest-numbered checks: when a (prior, current)
\* pair violates several checks the error raised is that of the lowest-numbered
\* violated check: 1 duplicate ids, 2 missing or broken origins, 3 non-unique
\* origins.
C9_LowestCheckFirst ==
    LET f == records_file
        duplicate_ids == \E i, j \in 1..Len(f) : i # j /\ f[i].ID = f[j].ID
        missing_origin == \E i \in 1..Len(f) : f[i].origin = <<>>
        broken_origin == Origins(f) \ all_record_links # {}
        non_unique == \E i, j \in 1..Len(f) : i # j /\ Range(f[i].origin) \cap Range(f[j].origin) # {}
    IN  Ran =>
          /\ duplicate_ids => check_result.kind = "DuplicatesError"
          /\ (~duplicate_ids /\ (missing_origin \/ broken_origin))
                => ( /\ check_result.kind = "OriginError"
                     /\ check_result.what \in {"Entries without origin", "broken origins"} )
          /\ (~duplicate_ids /\ ~missing_origin /\ ~broken_origin /\ non_unique)
                => ( /\ check_result.kind = "OriginError"
                     /\ check_result.what = "Non-unique origin" )

\* C10 as stated: if a record of the current snapshot owns two origins whose
\* statuses in the prior snapshot differ from each other, the check raises an
\* error, whether or not each individual transition is legal.
C10_AmbiguousProvenanceRaises ==
    Ran =>
        \A j \in 1..Len(records_file) :
            \A i1, i2 \in 1..Len(prior_file) :
                ( /\ Range(prior_file[i1].origin) \cap Range(records_file[j].origin) # {}
                  /\ Range(prior_file[i2].origin) \cap Range(records_file[j].origin) # {}
                  /\ prior_file[i1].status # prior_file[i2].status )
                => check_result # NoError

----------------------------------------------------------------------------
(* Properties of loading the origins of a records file *)

\* C8 as stated: whenever two distinct records of the store declare the same
\* origin, building the origin-to-status dictionary raises the non-unique-origin
\* error and never folds the duplicate into one entry, and the check raises the
\* non-unique-origin error naming that origin (or the error of an earlier
\* check: duplicate ids, missing or broken origins).
C8_NonUniqueOriginRaises ==
    \A i, j \in 1..Len(records_file) :
        \A o \in Range(records_file[i].origin) \cap Range(records_file[j].origin) :
            i # j =>
              /\ origin_states.loaded => origin_states.raised = "NonUniqueOrigin"
              /\ Ran =>
                   \/ check_result.kind = "DuplicatesError"
                   \/ /\ check_result.kind = "OriginError"
                      /\ check_result.what = "Non-unique origin"
                            => Count(Concat([k \in 1..Len(records_file) |-> records_file[k].origin]),
                                     check_result.arg) > 1

----------------------------------------------------------------------------
(* Properties of the single checks *)

\* Two entries of the working tree share an identifier
DuplicateIds == \E i, j \in 1..Len(records_file) : i # j /\ records_file[i].ID = records_file[j].ID

\* An entry of the working tree has no origin
MissingOrigin == \E i \in 1..Len(records_file) : records_file[i].origin = <<>>

\* An origin of the working tree names no entry of a search file
BrokenOrigin == Origins(records_file) \ all_record_links # {}

\* An entry of the working tree has a status outside the state set
InvalidStatus == \E i \in 1..Len(records_file) : records_file[i].status \notin Range(RecordState)

\* C11 as stated: if two entries of the current snapshot share an identifier
\* the check fails with DuplicateIdError; the duplicate-id check passes exactly
\* when all identifiers are pairwise distinct.
C11_DuplicateIdRaises ==
    Ran => (DuplicateIds <=> check_result.kind = "DuplicatesError")

\* C12 as stated: the check raises the missing-origin error for every snapshot
\* with a record without origin and the broken-origin error for every snapshot
\* with an origin that names no entry of a known source file (or the error of
\* the earlier duplicate-id check); it passes only when every record has an
\* origin and every origin resolves.
C12_MissingOrBrokenOriginRaises ==
    Ran =>
        /\ (MissingOrigin \/ BrokenOrigin) =>
              \/ check_result.kind = "DuplicatesError"
              \/ /\ check_result.kind = "OriginError"
                 /\ check_result.what \in
                       (IF MissingOrigin THEN {"Entries without origin"} ELSE {})
                       \cup (IF BrokenOrigin THEN {"broken origins"} ELSE {})
        /\ check_result = NoError => (~MissingOrigin /\ ~BrokenOrigin)

\* C13 as stated: if a record of the current snapshot has a status value
\* outside the declared state set the check raises InvalidStatusValueError (or
\* the error of an earlier check: duplicate ids or origins); a snapshot passes
\* only if every status is a member of the state set.
C13_InvalidStatusRaises ==
    Ran =>
        /\ InvalidStatus => check_result.kind \in {"FieldError", "StatusFieldValueError",
                                                   "DuplicatesError", "OriginError"}
        /\ check_result = NoError => ~InvalidStatus

----------------------------------------------------------------------------
(* Properties of the notification guard and of the wait for the index lock *)

\* C14: load, header-only or full, in either implementation, raises the
\* not-notified error whenever the caller has declared no operation, and has
\* not read the store file when it does.
C14_LoadNeedsNotification ==
    (store_io.op \in {"load_records_dict", "load_records"} /\ notified_next_operation = NotNotified)
        => ( /\ op_raised \in {"ReviewManagerNotNotifiedError", "ReviewManagerNotNofiedError"}
             /\ ~store_io.read )

\* C14 witness: a load without a declared operation has raised
C14_Witness ==
    /\ store_io.op = "load_records_dict"
    /\ notified_next_operation = NotNotified
    /\ op_raised = "ReviewManagerNotNotifiedError"
    /\ ~store_io.read

\* C15 as stated: every operation that reads or writes the store (load, full
\* or partial save, set_ids, obtaining the repository handle) raises the
\* not-notified error when no operation has been declared, and the store file
\* is neither written nor staged in a state where none has been declared.
C15_EveryOperationGuarded ==
    (store_io.op # "none" /\ notified_next_operation = NotNotified)
        => ( /\ op_raised \in {"ReviewManagerNotNotifiedError", "ReviewManagerNotNofiedError"}
             /\ ~store_io.written
             /\ ~store_io.staged )

\* C16 as stated: polling for the index lock is bounded: while the lock file
\* stays, the wait has ended with GitNotAvailableError once the poll counter
\* has passed 30.
C16_BoundedPolling ==
    wait.i > 30 => (wait.pc = "raised" /\ op_raised = "GitNotAvailableError")


----------------------------------------------------------------------------
(* Properties of has_changes *)

\* The result of the call recorded in changes_call, made on the repository repo
ResultOn(repo) ==
    IF changes_call.impl = "Dataset.has_record_changes"
    THEN has_record_changes(repo, changes_call.change_type)
    ELSE has_changes_of_repo(repo)

\* The repository with the changes of every file but the records file removed
OnlyRecordChanges ==
    [git_state EXCEPT !.files =
        [f \in RepoFiles |-> IF f = RECORDS_FILE_RELATIVE_GIT THEN git_state.files[f] ELSE Unchanged]]

\* C17: in a repository with at least one commit, has_record_changes with
\* change type 'all' is true exactly when it is true with 'staged' or with
\* 'unstaged', an untracked records file included
C17_AllIsStagedOrUnstaged ==
    (/\ changes_call.impl = "Dataset.has_record_changes"
     /\ changes_call.change_type = "all"
     /\ git_state.has_commit)
    => (changes_call.result <=>
            (\/ has_record_changes(git_state, "staged")
             \/ has_record_changes(git_state, "unstaged")))

\* C18: the result of a has_changes query for the records file depends only
\* on the changes of the records file: it is the result the same query gives
\* once the changes of the other files are removed
C18_OnlyRecordsFileCounts ==
    changes_call.impl # "none" => changes_call.result = ResultOn(OnlyRecordChanges)

----------------------------------------------------------------------------
(* Properties of the identifier allocators *)

\* The identifiers the allocator compares with: the blacklist, for
\* __generate_ID_blacklist without the one occurrence of the record's own ID
ComparedIds ==
    IF alloc.impl = "ReviewDataset.__generate_ID_blacklist" /\ alloc.record_id \in Range(alloc.existing_ids)
    THEN Range(list_remove(alloc.existing_ids, alloc.record_id))
    ELSE Range(alloc.existing_ids)

\* C19: with a non-empty blacklist, the identifier returned by
\* _generate_next_unique_id and by __generate_ID_blacklist is equal to no
\* identifier of the blacklist when both are compared in lower case
C19_NotInBlacklistIgnoringCase ==
    (/\ alloc.impl \in {"Dataset._generate_next_unique_id", "ReviewDataset.__generate_ID_blacklist"}
     /\ alloc.existing_ids # <<>>)
    => lower(alloc.id) \notin {lower(x) : x \in ComparedIds}

\* The n-th suffix of the enumeration a..z, aa..zz, written out for one and
\* two letters
EnumSuffix(n) ==
    IF n <= 26
    THEN <<letters[n]>>
    ELSE <<letters[((n - 27) \div 26) + 1], letters[((n - 27) % 26) + 1]>>

\* A collision: _generate_next_unique_id compares in lower case,
\* load_source_records compares the identifiers as they are written
Collides(id) ==
    IF alloc.impl = "Dataset._generate_next_unique_id"
    THEN lower(id) \in {lower(x) : x \in Range(alloc.existing_ids)}
    ELSE id \in Range(alloc.existing_ids)

\* C20: _generate_next_unique_id and load_source_records return a candidate
\* that does not collide unchanged, and otherwise the candidate followed by
\* the first suffix of a..z, aa..zz, ... that is free
C20_FirstFreeSuffix ==
    alloc.impl \in {"Dataset._generate_next_unique_id", "Load.load_source_records"}
    => IF ~Collides(alloc.temp_id)
       THEN alloc.id = alloc.temp_id
       ELSE \E n \in 1..(MaxTaken + 1) :
               /\ alloc.id = alloc.temp_id \o EnumSuffix(n)
               /\ ~Collides(alloc.id)
               /\ \A m \in 1..(n - 1) : Collides(alloc.temp_id \o EnumSuffix(m))

\* Smith2020 with Smith2020 and Smith2020a..Smith2020z taken becomes Smith2020aa
C20_Witness ==
    /\ alloc.impl = "Dataset._generate_next_unique_id"
    /\ alloc.temp_id = Smith2020
    /\ Len(alloc.existing_ids) = 27
    /\ alloc.id = Smith2020 \o <<"a", "a">>

----------------------------------------------------------------------------
(* Frame of set_ids *)

\* C21: Dataset.set_ids changes nothing but identifiers: the store holds as
\* many records after the call as before, and the record of each origin has
\* the status it had before the call, with or without selected_ids
C21_StatusAndOriginsKept ==
    ids_call.impl = "Dataset.set_ids" =>
        /\ Len(records) = Len(ids_before)
        /\ \A i \in 1..Len(ids_before) :
              \E j \in 1..Len(records) :
                  /\ records[j].val.origin = ids_before[i].val.origin
                  /\ records[j].val.status = ids_before[i].val.status

\* C21 witness: a call with selected_ids has given an md_imported record a
\* new identifier
C21_Witness ==
    /\ ids_call.impl = "Dataset.set_ids"
    /\ ids_call.selected_ids.given
    /\ \E i \in 1..Len(ids_before), j \in 1..Len(records) :
          /\ ids_before[i].val.status = "md_imported"
          /\ ids_before[i].key \in ids_call.selected_ids.ids
          /\ records[j].val.origin = ids_before[i].val.origin
          /\ records[j].val.ID # ids_before[i].val.ID
          /\ records[j].val.status = "md_imported"

----------------------------------------------------------------------------
(* Properties of the patch writes *)

\* The positions at which an entry starts: an "@" at the start of a line
EntryStarts(text) == {i \in 1..Len(text) : text[i] = "@" /\ (i = 1 \/ text[i - 1] = NL)}

\* The byte spans of the entries of a text, in the order of the text
SpanList(text) ==
    LET starts == EntryStarts(text)
        start(k) == CHOOSE i \in starts : Cardinality({j \in starts : j < i}) = k - 1
    IN  [k \in 1..Cardinality(starts) |->
            SubSeq(text, start(k),
                   IF k = Cardinality(starts) THEN Len(text) ELSE start(k + 1) - 1)]

\* The identifier of a span: the text between its first "{" and its first ","
SpanId(span) == SubSeq(span, IndexOf(span, "{") + 1, IndexOf(span, ",") - 1)

\* The span that a patch write is to put in the place of a span of the old file
ExpectedSpan(span) ==
    LET targets == {k \in 1..Len(file_call.args.records) :
                       file_call.args.records[k].ID = SpanId(span)}
    IN  IF file_call.op = "ReviewDataset.replace_field"
        THEN IF SpanId(span) \in Range(file_call.args.IDs)
             THEN LET field == CHOOSE f \in DOMAIN key_chars : key_chars[f] = file_call.args.key
                  IN  entry_to_bibtex([loads(span)[1] EXCEPT ![field] = file_call.args.val_str])
                          \o <<NL>>
             ELSE span
        ELSE IF targets = {}
        THEN span
        ELSE IF file_call.op = "ReviewDataset.update_record_by_ID" /\ file_call.args.delete
        THEN <<>>
        ELSE entry_to_bibtex(file_call.args.records[CHOOSE k \in targets : TRUE]) \o <<NL>>

\* C22: after a patch write (partial save, update of one record, replacement
\* of a field) the file is the old file with the span of each targeted entry
\* replaced by its replacement and every other span as it was and where it
\* was, with nothing after the last span
C22_OnlyTargetedSpansChange ==
    file_call.op \in {"Dataset._save_record_list_by_id", "ReviewDataset.update_record_by_ID",
                      "ReviewDataset.replace_field"}
    => main_references =
          Concat([k \in 1..Len(SpanList(main_references_before)) |->
                     ExpectedSpan(SpanList(main_references_before)[k])])

\* C22 witness: a partial save has replaced the first of several entries by a
\* shorter rendering
C22_Witness ==
    /\ file_call.op = "Dataset._save_record_list_by_id"
    /\ Len(SpanList(main_references_before)) > 1
    /\ SpanId(SpanList(main_references_before)[1]) = file_call.args.records[1].ID
    /\ Len(main_references) < Len(main_references_before)

\* C23: after a partial save, the entry of the file under the identifier of
\* each saved record that was in the file is the rendering of that record
C23_OwnRendering ==
    file_call.op \in {"Dataset._save_record_list_by_id", "ReviewDataset.save_record_list_by_ID"}
    => \A k \in 1..Len(file_call.args.records) :
          LET record == file_call.args.records[k]
          IN  (\E s \in Range(SpanList(main_references_before)) : SpanId(s) = record.ID)
              => \E s \in Range(SpanList(main_references)) :
                    /\ SpanId(s) = record.ID
                    /\ s = entry_to_bibtex(record) \o <<NL>>

\* The identifiers of the entries of a text, in the order of the text
SpanIds(text) == [k \in 1..Len(SpanList(text)) |-> SpanId(SpanList(text)[k])]

\* The entries of a text are in ascending order of identifier
Ascending(text) ==
    \A k \in 1..(Len(SpanIds(text)) - 1) : str_less(SpanIds(text)[k], SpanIds(text)[k + 1])

\* C26: after a full save, and after a partial save on a file whose entries
\* were in ascending order of identifier, the entries of the file are in
\* ascending order of identifier
C26_EntriesAscending ==
    (\/ file_call.op \in {"ReviewDataset.save_records", "Dataset.save_records_dict_to_file"}
     \/ /\ file_call.op = "Dataset._save_record_list_by_id"
        /\ Ascending(main_references_before))
    => Ascending(main_references)

\* C26 witness: a full save of a list given in descending order of identifier
\* has written more than one entry
C26_Witness ==
    /\ file_call.op = "ReviewDataset.save_records"
    /\ Len(file_call.args.records) > 1
    /\ str_less(file_call.args.records[2].ID, file_call.args.records[1].ID)
    /\ Len(SpanIds(main_references)) = Len(file_call.args.records)

----------------------------------------------------------------------------
(* Properties of the serializer and the parses *)

\* The entries of the file, each with the fields it has in the text
FileEntries == loads(main_references_before)

\* C24: a mapping of records with a status, saved in full and loaded back, is
\* the mapping that was saved: the same identifiers, and for each record the same status,
\* origin and field values
C24_RoundTrip ==
    (/\ file_call.op \in {"save_records;load_records", "save_records_dict_to_file;load_records"}
     /\ \A k \in 1..Len(file_call.args.records) : file_call.args.records[k].status # Absent)
    => /\ file_call.raised = "none"
       /\ Range(file_call.result) = Range(file_call.args.records)
       /\ Len(file_call.result) = Len(file_call.args.records)

\* C25: loading a file that a save has written, its entries all with a
\* status, and saving the records again without a change gives the same file, byte for byte
C25_SaveAfterLoadIsIdentity ==
    (/\ file_call.op = "load_records;save_records"
     /\ \A k \in 1..Len(FileEntries) : FileEntries[k].status # Absent)
    => main_references = main_references_before

\* C27: on a file written by the serializer that has entries, all with an
\* origin and a status, the header-only parses return, for each entry, the
\* identifier, the origin and the status that the full parse returns
C27_HeaderParseAgrees ==
    /\ (/\ file_call.op = "ReviewDataset.get_record_header_list"
        /\ FileEntries # <<>>
        /\ \A k \in 1..Len(FileEntries) : FileEntries[k].status # Absent)
       => /\ file_call.raised = "none"
          /\ file_call.result =
                [k \in 1..Len(FileEntries) |->
                    <<FileEntries[k].ID, FileEntries[k].origin, FileEntries[k].status>>]
    /\ (/\ file_call.op = "ReviewDataset.get_record_state_list"
        /\ FileEntries # <<>>
        /\ \A k \in 1..Len(FileEntries) : FileEntries[k].status # Absent)
       => /\ file_call.raised = "none"
          /\ file_call.result =
                [k \in 1..Len(FileEntries) |-> <<FileEntries[k].ID, FileEntries[k].status>>]

\* C28: a parse of a text in which an entry has no status field, full or
\* header-only, fails with the error for a missing status and returns no
\* records
C28_MissingStatusFails ==
    (/\ file_call.op \in {"ReviewDataset.load_records", "ReviewDataset.get_record_state_list",
                          "ReviewDataset.get_record_header_list"}
     /\ \E k \in 1..Len(FileEntries) : FileEntries[k].status = Absent)
    => file_call.raised = "StatusFieldValueError"

----------------------------------------------------------------------------
(* Properties of the search over a directory of PDFs *)

RecordIds(file) == {file.entries[i].ID : i \in 1..Len(file.entries)}

\* C29: no operation other than reprocess_id leaves the dataset without a record
\* it had before: after a search over the directory of PDFs that raised nothing,
\* every record that was in the records file is still in it.
C29_OnlyReprocessRemoves ==
    (search_call.op = "run_search" /\ search_call.raised = "none")
        => RecordIds(search_call.records_before) \subseteq RecordIds(dataset_records)

----------------------------------------------------------------------------
(* Properties of load_records_from_history *)

\* The position of the commit hexsha in the history, the first commit at 1
CommitNo(hexsha) == CHOOSE i \in 1..Len(commits) : commits[i].hexsha = hexsha

YieldedNo(k) == CommitNo(history_call.yielded[k].commit)

\* C30: the snapshots are yielded in commit order, oldest first, and with a
\* start commit no snapshot of a commit made before it is yielded.
C30_OldestToNewest ==
    history_call.called =>
        /\ \A j, k \in 1..Len(history_call.yielded) : j < k => YieldedNo(j) < YieldedNo(k)
        /\ \A k \in 1..Len(history_call.yielded) :
               (\E i \in 1..Len(commits) : commits[i].hexsha = history_call.commit_sha)
                   => CommitNo(history_call.commit_sha) <= YieldedNo(k)

\* The records file of the commit the k-th yielded records_dict was read from
YieldedBlob(k) == commits[YieldedNo(k)].filecontents

\* C31: a commit whose records file is the one of the preceding commit is skipped:
\* two records dicts yielded one after the other never come from the same
\* records file contents.
C31_UnchangedCommitsSkipped ==
    history_call.called =>
        \A k \in 1..(Len(history_call.yielded) - 1) : YieldedBlob(k) # YieldedBlob(k + 1)

----------------------------------------------------------------------------
(* Properties of get_committed_origin_state_dict *)

\* The records of the records file of the last commit: no later commit changed it
HeadRecords == loads(commits[Len(commits)].filecontents)

OriginsOf(e) == Range(split(e.origin, <<";">>))

Owners(o) == {i \in 1..Len(HeadRecords) : o \in OriginsOf(HeadRecords[i])}

\* C32: the dictionary of the committed origins has one key for every origin of
\* every record of the records file as last committed, and no other key; an
\* origin is mapped to the status of the record that has it, so that the
\* status of a record with several origins is found under each of them.
C32_OriginsOfCommittedRecords ==
    (origin_states.loaded /\ origin_states.raised = "none") =>
        /\ Range(keys(origin_states.dict))
              = UNION {OriginsOf(HeadRecords[i]) : i \in 1..Len(HeadRecords)}
        /\ \A j, k \in 1..Len(origin_states.dict) :
               origin_states.dict[j].key = origin_states.dict[k].key => j = k
        /\ \A k \in 1..Len(origin_states.dict) :
               \A i \in Owners(origin_states.dict[k].key) :
                   origin_states.dict[k].val = HeadRecords[i].status

\* A record with two origins was committed, and a later commit left the records
\* file as it was
C32_Witness ==
    /\ origin_states.loaded /\ origin_states.raised = "none"
    /\ Len(commits) >= 3
    /\ commits[Len(commits)].filecontents = commits[Len(commits) - 1].filecontents
    /\ commits[1].filecontents # commits[Len(commits)].filecontents
    /\ \E i \in 1..Len(HeadRecords) : Cardinality(OriginsOf(HeadRecords[i])) = 2

----------------------------------------------------------------------------
(* Properties of the temporary identifiers *)

FirstAuthor(author) == split(author, and_sep)[1]

\* The text before the first comma, or the first space-delimited token
FamilyNameOf(a) == IF "," \in Range(a) THEN split(a, <<",">>)[1] ELSE split(a, <<" ">>)[1]

\* C33: under first_author_year the temporary identifier of a record with an
\* author and a year is the family name of its first author followed by the
\* year, however many authors it has.
C33_FirstAuthorYear ==
    (/\ alloc.impl # "none"
     /\ alloc.id_pattern = "first_author_year"
     /\ alloc.record.author # <<>>
     /\ alloc.record.year # <<>>)
        => alloc.temp_id = FamilyNameOf(FirstAuthor(alloc.record.author)) \o alloc.record.year

----------------------------------------------------------------------------
(* set_ids keeps the records apart *)

\* The records of the store that have the origins of the i-th record before the call
After(i) == {j \in 1..Len(records) : records[j].val.origin = ids_before[i].val.origin}

\* C38: Dataset.set_ids neither merges nor drops records: the mapping has as
\* many records after the call as before, no identifier is the key of two of
\* them, every record is stored under its own identifier, and each record
\* of the input is found exactly once.
C38_NoMergeNoDrop ==
    ids_call.impl = "Dataset.set_ids" =>
        /\ Len(records) = Len(ids_before)
        /\ \A j, k \in 1..Len(records) : records[j].key = records[k].key => j = k
        /\ \A j \in 1..Len(records) : records[j].key = records[j].val.ID
        /\ \A i \in 1..Len(ids_before) : Cardinality(After(i)) = 1

\* C38 witness: two records with the same temporary ID were both renamed, and
\* the second one got a suffix
C38_Witness ==
    /\ ids_call.impl = "Dataset.set_ids"
    /\ Len(ids_before) = 2
    /\ \A i \in 1..2 : generate_temp_id(ids_before[i].val, ids_call.id_pattern) = Li9
    /\ \A i \in 1..2 : \A j \in After(i) : records[j].key # ids_before[i].key
    /\ {records[j].key : j \in 1..Len(records)} = {Li9, Li9 \o <<"a">>}

----------------------------------------------------------------------------
(* Properties of load_source_records *)

Loaded == load_call.op = "load_source_records" /\ load_call.raised = "none"

OriginsBefore == Range(get_currently_imported_origin_list(load_call.records_before))

\* The records of the store that the last call has added
Added == {j \in 1..Len(records) : ~(Range(records[j].val.origin) \subseteq OriginsBefore)}

SourceOrigins == {record_origin(OriginPrefix, source_file[i].ID) : i \in 1..Len(source_file)}

\* C34: what an import hands over has the status md_retrieved and the one origin
\* '<origin prefix>/<ID in the source>'; a record it has added to the store has
\* exactly that one origin and the status md_imported, and no record of the
\* store is without an origin.
C34_OneOriginThenImported ==
    Loaded =>
        /\ \A i \in 1..Len(load_call.source_records_list) :
              /\ load_call.source_records_list[i].status = "md_retrieved"
              /\ load_call.source_records_list[i].origin
                    = <<record_origin(OriginPrefix, load_call.source_records_list[i].ID)>>
              /\ load_call.source_records_list[i].ID \in ids_of(source_file)
        /\ \A j \in Added :
              /\ Len(records[j].val.origin) = 1
              /\ records[j].val.origin[1] \in SourceOrigins
              /\ records[j].val.status = "md_imported"
        /\ \A j \in 1..Len(records) : records[j].val.origin # <<>>

\* C34 witness: two records of the source were added to a store that had records
C34_Witness ==
    /\ Loaded
    /\ load_call.records_before # <<>>
    /\ Cardinality(Added) = 2

\* C35: the records the store had before load_source_records are in it after
\* the call, under the same identifiers and with the same content, and the
\* records the call has added are under identifiers the store did not have.
C35_ExistingRecordsKept ==
    Loaded =>
        /\ \A i \in 1..Len(load_call.records_before) :
              \E j \in 1..Len(records) : records[j] = load_call.records_before[i]
        /\ \A j \in Added : records[j].key \notin Range(keys(load_call.records_before))
        /\ \A j, k \in 1..Len(records) : records[j].key = records[k].key => j = k
        /\ Len(records) = Len(load_call.records_before) + Len(load_call.source_records_list)

\* C35 witness: the source has a record whose ID is the ID of a record of the
\* store that came from another source, and it was added under another ID
C35_Witness ==
    /\ Loaded
    /\ \E i \in 1..Len(load_call.source_records_list) :
          /\ load_call.source_records_list[i].ID \in Range(keys(load_call.records_before))
          /\ \E j \in Added :
                /\ records[j].val.origin = load_call.source_records_list[i].origin
                /\ records[j].key # load_call.source_records_list[i].ID

\* C36: a record of the source whose origin a record of the store has is not
\* imported again: a load on a store that has every origin of the source adds
\* nothing, and no origin is ever claimed by two records of the store.
C36_LoadedOnce ==
    Loaded =>
        /\ \A i \in 1..Len(load_call.source_records_list) :
              load_call.source_records_list[i].origin[1] \notin OriginsBefore
        /\ (SourceOrigins \subseteq OriginsBefore) => records = load_call.records_before
        /\ \A j, k \in 1..Len(records) :
              (Range(records[j].val.origin) \cap Range(records[k].val.origin) # {}) => j = k

\* C36 witness: the source was loaded a second time, into the store that has
\* the two records of the first load
C36_Witness ==
    /\ Loaded
    /\ Len(source_file) = 2
    /\ SourceOrigins \subseteq OriginsBefore
    /\ load_call.source_records_list = <<>>
    /\ Len(records) > 2

----------------------------------------------------------------------------
(* Properties of ensure_append_only *)

\* Every committed version of the file is the start of the next one, and the
\* newest one is the start of the file in the working tree
AppendedOnly ==
    /\ \A i \in 1..(Len(file_revisions) - 1) :
           startswith(file_revisions[i + 1], file_revisions[i])
    /\ file_revisions # <<>> => startswith(search_file, file_revisions[Len(file_revisions)])

\* C37: ensure_append_only returns when the search file was only appended to,
\* from each committed version to the next and from the newest one to the
\* working tree, and raises AppendOnlyViolation when it was not.
C37_AcceptsExactlyAppends ==
    append_only # "not called" =>
        (append_only = "ok" <=> AppendedOnly)

----------------------------------------------------------------------------
(* Entries without a prior status *)

\* The entries of the records file that have none of the origins of the last commit
NewEntries ==
    {i \in 1..Len(records_file) : Range(records_file[i].origin) \cap Origins(prior_file) = {}}

\* C39: an entry none of whose origins is in the last commit passes the
\* transition check whatever its status: an invalid state transition is
\* reported only for an entry that has an origin of the last commit, and never
\* when every entry of the file is new.
C39_NewEntryIsLoad ==
    (Ran /\ check_result.kind = "StatusTransitionError") =>
        /\ NewEntries # 1..Len(records_file)
        /\ check_result.what = "invalid state transition" =>
              \E i \in 1..Len(records_file) :
                  /\ i \notin NewEntries
                  /\ records_file[i].ID = check_result.arg

\* C39 witness: the checks have passed on a file with an entry that is not in
\* the last commit and has the status rev_prescreen_excluded
C39_Witness ==
    /\ Ran
    /\ check_result = NoError
    /\ prior_file # <<>>
    /\ \E i \in NewEntries :
          /\ records_file[i].origin # <<>>
          /\ records_file[i].status = "rev_prescreen_excluded"

----------------------------------------------------------------------------
(* Frame of the partial save *)

\* The identifiers of the saved records that the file did not have
NotInFile ==
    {file_call.args.records[k].ID : k \in 1..Len(file_call.args.records)}
        \ Range(SpanIds(main_references_before))

\* C40: a partial save adds no entry and removes none: the file has the
\* identifiers it had, in the order it had them, and the records of the batch
\* whose identifier the file did not have are reported as not written.
C40_NoEntryAddedOrRemoved ==
    file_call.op = "Dataset._save_record_list_by_id" =>
        /\ SpanIds(main_references) = SpanIds(main_references_before)
        /\ Range(file_call.result) = NotInFile

\* C40 witness: of the two records of a partial save, one was in the file and
\* was rewritten, the other was not and is not in the file after the save
C40_Witness ==
    /\ file_call.op = "Dataset._save_record_list_by_id"
    /\ Len(file_call.args.records) = 2
    /\ Cardinality(NotInFile) = 1
    /\ main_references # main_references_before
    /\ NotInFile \cap Range(SpanIds(main_references)) = {}

====
